---------------------------- MODULE Spec2Model ----------------------------
(***************************************************************************)
(* A model of the type checker of src/src/typechecker.rs.                  *)
(*                                                                         *)
(* Values.  Option<T> is a sequence of length at most one: None is <<>>,   *)
(* Some(x) is <<x>>.  A JaktError is its message (spans are opaque and     *)
(* left out).  A Type is a record with a tag k.  StructId, FunctionId and  *)
(* ScopeId are 0-based as in the source; the vectors of the project are    *)
(* TLA+ sequences, so the entry of id i is at position i + 1.              *)
(* Integers are little-endian byte sequences, so that the 64-bit           *)
(* comparisons and the narrowing `as` casts are modelled at their width.   *)
(***************************************************************************)
EXTENDS Integers, Sequences, FiniteSets, TLC

VARIABLES
    project,             \* the Project: funs, structs, scopes
    parsed_file,         \* the ParsedFile handed to typecheck_file
    scope_id,            \* the scope id handed to typecheck_file
    pc,                  \* position inside typecheck_file
    idx,                 \* index of the enclosing loop of typecheck_file
    midx,                \* index of the method loop of typecheck_struct
    error,               \* the `error` local of typecheck_file
    project_struct_len,  \* the `project_struct_len` local of typecheck_file
    bodies_checked,      \* history: number of bodies checked so far
    funs_at_first_body,  \* history: project.funs.len() after the first body
    first_error,         \* history: the first error any pass has returned
    input,               \* argument of the function under test (function specs)
    output               \* its result

vars == <<project, parsed_file, scope_id, pc, idx, midx, error,
          project_struct_len, bodies_checked, funs_at_first_body, first_error,
          input, output>>

-----------------------------------------------------------------------------
(* Option and the error accumulator *)

None == <<>>
Some(x) == <<x>>
Unwrap(o) == o[1]

\* Option::or: the first Some wins
Or(a, b) == IF a # None THEN a ELSE b

TypecheckError(msg) == Some(msg)

\* `let v = ...` followed by F: the value is computed once and named
With(v, F(_)) == F(v)

-----------------------------------------------------------------------------
(* Type *)

Ty(tag) == [k |-> tag]
Vector(t) == [k |-> "Vector", of |-> t]
Optional(t) == [k |-> "Optional", of |-> t]
RawPtr(t) == [k |-> "RawPtr", of |-> t]
Tuple(ts) == [k |-> "Tuple", ts |-> ts]
StructTy(id) == [k |-> "Struct", id |-> id]
Unknown == Ty("Unknown")

SignedTags == {"I8", "I16", "I32", "I64"}
UnsignedTags == {"U8", "U16", "U32", "U64"}
IntegerTags == SignedTags \cup UnsignedTags

is_integer(ty) == ty.k \in IntegerTags

\* number of bytes of an integer type
WidthOf(tag) ==
    CASE tag \in {"I8", "U8"} -> 1
      [] tag \in {"I16", "U16"} -> 2
      [] tag \in {"I32", "U32"} -> 4
      [] tag \in {"I64", "U64"} -> 8

-----------------------------------------------------------------------------
(* Fixed-width integers as little-endian byte sequences *)

Fill(n, b) == [i \in 1..n |-> b]

IsNegative(bs) == bs[Len(bs)] >= 128

\* a widening cast of a signed / an unsigned value
SignExtend(bs, n) == bs \o Fill(n - Len(bs), IF IsNegative(bs) THEN 255 ELSE 0)
ZeroExtend(bs, n) == bs \o Fill(n - Len(bs), 0)
\* a narrowing (or same-width) `as` cast keeps the low bytes
Truncate(bs, n) == SubSeq(bs, 1, n)

\* unsigned comparison of two byte sequences of the same length
RECURSIVE ULessFrom(_, _, _)
ULessFrom(a, b, i) ==
    IF i = 0 THEN FALSE
    ELSE IF a[i] # b[i] THEN a[i] < b[i]
    ELSE ULessFrom(a, b, i - 1)

ULe(a, b) == ~ULessFrom(b, a, Len(a))

\* two's complement comparison of two byte sequences of the same length
SLe(a, b) ==
    IF IsNegative(a) # IsNegative(b) THEN IsNegative(a)
    ELSE ULe(a, b)

\* i8::MAX, i16::MAX, ... / i8::MIN, ... / u8::MAX, ... at their own width
SignedMax(n) == [i \in 1..n |-> IF i = n THEN 127 ELSE 255]
SignedMin(n) == [i \in 1..n |-> IF i = n THEN 128 ELSE 0]
UnsignedMax(n) == Fill(n, 255)
Zero64 == Fill(8, 0)

-----------------------------------------------------------------------------
(* IntegerConstant, NumericConstant *)

Signed(bits) == [kind |-> "Signed", bits |-> bits]       \* i64
Unsigned(bits) == [kind |-> "Unsigned", bits |-> bits]   \* u64
NumericConstant(tag, bits) == [tag |-> tag, bits |-> bits]

can_fit_integer_u64_unchecked(ty, value) ==
    IF value.kind = "Signed" THEN
        CASE ty.k \in {"I8", "I16", "I32"} ->
                /\ SLe(SignExtend(SignedMin(WidthOf(ty.k)), 8), value.bits)
                /\ SLe(value.bits, SignExtend(SignedMax(WidthOf(ty.k)), 8))
          [] ty.k = "I64" -> TRUE
          [] ty.k \in {"U8", "U16", "U32"} ->
                /\ SLe(Zero64, value.bits)
                /\ SLe(value.bits, ZeroExtend(UnsignedMax(WidthOf(ty.k)), 8))
          [] ty.k = "U64" -> TRUE
          [] OTHER -> FALSE
    ELSE
        CASE ty.k \in SignedTags ->
                ULe(value.bits, ZeroExtend(SignedMax(WidthOf(ty.k)), 8))
          [] ty.k \in {"U8", "U16", "U32"} ->
                ULe(value.bits, ZeroExtend(UnsignedMax(WidthOf(ty.k)), 8))
          [] ty.k = "U64" -> TRUE
          [] OTHER -> FALSE

can_fit_integer(ty, value) ==
    IF value.kind = "Signed" THEN
        CASE ty.k \in {"I8", "I16", "I32"} ->
                /\ SLe(SignExtend(SignedMin(WidthOf(ty.k)), 8), value.bits)
                /\ SLe(value.bits, SignExtend(SignedMax(WidthOf(ty.k)), 8))
          [] ty.k = "I64" -> TRUE
          [] ty.k \in {"U8", "U16", "U32"} ->
                /\ SLe(Zero64, value.bits)
                /\ SLe(value.bits, ZeroExtend(UnsignedMax(WidthOf(ty.k)), 8))
          [] ty.k = "U64" -> SLe(Zero64, value.bits)
          [] OTHER -> FALSE
    ELSE
        CASE ty.k \in SignedTags ->
                ULe(value.bits, ZeroExtend(SignedMax(WidthOf(ty.k)), 8))
          [] ty.k \in {"U8", "U16", "U32"} ->
                ULe(value.bits, ZeroExtend(UnsignedMax(WidthOf(ty.k)), 8))
          [] ty.k = "U64" -> TRUE
          [] OTHER -> FALSE

\* promote going to its width match without asking can_fit_integer first
promote_without_fit_test(value, ty) ==
    IF ty.k \in IntegerTags
    THEN <<Some(NumericConstant(ty.k, Truncate(value.bits, WidthOf(ty.k)))), ty>>
    ELSE "panic"

\* IntegerConstant::promote: <<Option<NumericConstant>, Type>>, or "panic"
promote(value, ty) ==
    IF ~can_fit_integer(ty, value) THEN <<None, Unknown>>
    ELSE IF ty.k \in IntegerTags
         THEN <<Some(NumericConstant(ty.k, Truncate(value.bits, WidthOf(ty.k)))), ty>>
         ELSE "panic"

\* NumericConstant::integer_constant
integer_constant(c) ==
    IF c.tag \in SignedTags THEN Some(Signed(SignExtend(c.bits, 8)))
    ELSE Some(Unsigned(ZeroExtend(c.bits, 8)))

\* NumericConstant::ty
constant_ty(c) == Ty(c.tag)

-----------------------------------------------------------------------------
(* Scope and Project *)

\* Scope::new
NewScope(parent) == [vars |-> <<>>, structs |-> <<>>, funs |-> <<>>, parent |-> parent]

\* Project::new
NewProject == [funs |-> <<>>, structs |-> <<>>, scopes |-> <<NewScope(None)>>]

ScopeAt(p, sid) == p.scopes[sid + 1]
FunAt(p, fid) == p.funs[fid + 1]
StructAt(p, id) == p.structs[id + 1]

create_scope_own_parent(p, parent_id) ==
    <<[p EXCEPT !.scopes = Append(@, NewScope(Some(Len(p.scopes))))], Len(p.scopes)>>

\* Project::create_scope: <<project, new scope id>>
create_scope(p, parent_id) ==
    <<[p EXCEPT !.scopes = Append(@, NewScope(Some(parent_id)))], Len(p.scopes)>>

LeastOf(S) == CHOOSE x \in S : \A y \in S : x <= y

\* the first entry of a list of <<name, id>> bindings with that name
FirstBinding(list, name) ==
    LET hits == {i \in 1..Len(list) : list[i][1] = name}
    IN  IF hits = {} THEN None ELSE Some(list[LeastOf(hits)][2])

FirstVar(list, name) ==
    LET hits == {i \in 1..Len(list) : list[i].name = name}
    IN  IF hits = {} THEN None ELSE Some(list[LeastOf(hits)])

Redefinition(name) == TypecheckError("redefinition of " \o name)

add_var_to_scope_shadowing(p, sid, var) ==
    [project |-> [p EXCEPT !.scopes[sid + 1].vars = Append(@, var)], err |-> None]

\* Project::add_var_to_scope: the project after the call and the Err, if any
add_var_to_scope(p, sid, var) ==
    IF \E i \in 1..Len(ScopeAt(p, sid).vars) : ScopeAt(p, sid).vars[i].name = var.name
    THEN [project |-> p, err |-> Redefinition(var.name)]
    ELSE [project |-> [p EXCEPT !.scopes[sid + 1].vars = Append(@, var)], err |-> None]

\* Project::add_struct_to_scope
add_struct_to_scope(p, sid, name, struct_id) ==
    IF \E i \in 1..Len(ScopeAt(p, sid).structs) : ScopeAt(p, sid).structs[i][1] = name
    THEN [project |-> p, err |-> Redefinition(name)]
    ELSE [project |-> [p EXCEPT !.scopes[sid + 1].structs = Append(@, <<name, struct_id>>)],
          err |-> None]

add_function_to_scope_unchecked(p, sid, name, function_id) ==
    [project |-> [p EXCEPT !.scopes[sid + 1].funs = Append(@, <<name, function_id>>)],
     err |-> None]

\* Project::add_function_to_scope
add_function_to_scope(p, sid, name, function_id) ==
    IF \E i \in 1..Len(ScopeAt(p, sid).funs) : ScopeAt(p, sid).funs[i][1] = name
    THEN [project |-> p, err |-> Redefinition(name)]
    ELSE [project |-> [p EXCEPT !.scopes[sid + 1].funs = Append(@, <<name, function_id>>)],
          err |-> None]

\* Project::find_var_in_scope: walks the parent chain
RECURSIVE find_var_in_scope(_, _, _)
find_var_in_scope(p, sid, var) ==
    With(FirstVar(ScopeAt(p, sid).vars, var), LAMBDA hit :
        IF hit # None THEN hit
        ELSE IF ScopeAt(p, sid).parent = None THEN None
        ELSE find_var_in_scope(p, Unwrap(ScopeAt(p, sid).parent), var))

\* Project::find_struct_in_scope
RECURSIVE find_struct_in_scope(_, _, _)
find_struct_in_scope(p, sid, structure) ==
    With(FirstBinding(ScopeAt(p, sid).structs, structure), LAMBDA hit :
        IF hit # None THEN hit
        ELSE IF ScopeAt(p, sid).parent = None THEN None
        ELSE find_struct_in_scope(p, Unwrap(ScopeAt(p, sid).parent), structure))

\* Project::find_function_in_scope
RECURSIVE find_function_in_scope(_, _, _)
find_function_in_scope(p, sid, fun_name) ==
    With(FirstBinding(ScopeAt(p, sid).funs, fun_name), LAMBDA hit :
        IF hit # None THEN hit
        ELSE IF ScopeAt(p, sid).parent = None THEN None
        ELSE find_function_in_scope(p, Unwrap(ScopeAt(p, sid).parent), fun_name))

-----------------------------------------------------------------------------
(* Checked nodes *)

CheckedVariable(name, ty, mutable) == [name |-> name, ty |-> ty, mutable |-> mutable]
CheckedVarDecl(name, ty, mutable) == [name |-> name, ty |-> ty, mutable |-> mutable]
CheckedParameter(requires_label, variable) ==
    [requires_label |-> requires_label, variable |-> variable]
NewCheckedBlock == [stmts |-> <<>>]
Garbage == [k |-> "Garbage"]

\* CheckedExpression::ty
ty_of(e) ==
    CASE e.k = "Boolean" -> Ty("Bool")
      [] e.k = "QuotedString" -> Ty("String")
      [] e.k = "CharacterConstant" -> Ty("CChar")
      [] e.k = "Var" -> e.var.ty
      [] e.k = "Garbage" -> Unknown
      [] OTHER -> e.ty

\* CheckedExpression::to_integer_constant
to_integer_constant(e) ==
    IF e.k = "NumericConstant" THEN integer_constant(e.constant) ELSE None

\* is_mutable looking through a tuple index as well
RECURSIVE is_mutable_through_tuples(_)
is_mutable_through_tuples(e) ==
    CASE e.k = "Var" -> e.var.mutable
      [] e.k \in {"IndexedStruct", "IndexedExpression", "IndexedTuple"} ->
            is_mutable_through_tuples(e.expr)
      [] OTHER -> FALSE

\* CheckedExpression::is_mutable
RECURSIVE is_mutable(_)
is_mutable(e) ==
    CASE e.k = "Var" -> e.var.mutable
      [] e.k = "IndexedStruct" -> is_mutable(e.expr)
      [] e.k = "IndexedExpression" -> is_mutable(e.expr)
      [] OTHER -> FALSE

\* try_promote_constant_expr_to_type: <<checked_rhs after the call, error>>
try_promote_constant_expr_to_type(lhs_type, checked_rhs) ==
    IF ~is_integer(lhs_type) THEN <<checked_rhs, None>>
    ELSE With(to_integer_constant(checked_rhs), LAMBDA rhs_constant :
        IF rhs_constant = None THEN <<checked_rhs, None>>
        ELSE With(promote(Unwrap(rhs_constant), lhs_type), LAMBDA r :
            IF r[1] # None
            THEN <<[k |-> "NumericConstant", constant |-> Unwrap(r[1]), ty |-> r[2]], None>>
            ELSE <<checked_rhs, TypecheckError("Integer promotion failed")>>))

-----------------------------------------------------------------------------
(* Parsed types: [k |-> "Name", name |-> s], [k |-> "Empty"],               *)
(* [k |-> "Vector" | "Optional" | "RawPtr", inner |-> t]                    *)

Name(s) == [k |-> "Name", name |-> s]
Empty == [k |-> "Empty"]

BuiltinTypeNames ==
    [i8 |-> "I8", i16 |-> "I16", i32 |-> "I32", i64 |-> "I64",
     u8 |-> "U8", u16 |-> "U16", u32 |-> "U32", u64 |-> "U64",
     f32 |-> "F32", f64 |-> "F64", c_char |-> "CChar", c_int |-> "CInt",
     String |-> "String", bool |-> "Bool", void |-> "Void"]

\* typecheck_typename: <<Type, error>>
RECURSIVE typecheck_typename(_, _, _)
typecheck_typename(unchecked_type, sid, p) ==
    CASE unchecked_type.k = "Name" ->
            IF unchecked_type.name \in DOMAIN BuiltinTypeNames
            THEN <<Ty(BuiltinTypeNames[unchecked_type.name]), None>>
            ELSE With(find_struct_in_scope(p, sid, unchecked_type.name), LAMBDA structure :
                    IF structure # None
                    THEN <<StructTy(Unwrap(structure)), None>>
                    ELSE <<Unknown, TypecheckError("unknown type")>>)
      [] unchecked_type.k = "Empty" -> <<Unknown, None>>
      [] unchecked_type.k = "Vector" ->
            With(typecheck_typename(unchecked_type.inner, sid, p), LAMBDA r :
                <<Vector(r[1]), r[2]>>)
      [] unchecked_type.k = "Optional" ->
            With(typecheck_typename(unchecked_type.inner, sid, p), LAMBDA r :
                <<Optional(r[1]), r[2]>>)
      [] unchecked_type.k = "RawPtr" ->
            With(typecheck_typename(unchecked_type.inner, sid, p), LAMBDA r :
                <<RawPtr(r[1]), r[2]>>)

-----------------------------------------------------------------------------
(* Expressions.  A parsed Expression is a record with a tag k:              *)
(*   BinaryOp(lhs, op, rhs)  UnaryOp(expr, op)  OptionalNone                *)
(*   OptionalSome(expr)  ForcedUnwrap(expr)  Boolean(b)  Call(call)         *)
(*   NumericConstant(constant)  QuotedString(s)  CharacterLiteral(c)        *)
(*   Var(name)  Vector(items, fill)  Tuple(items)                           *)
(*   IndexedExpression(expr, index)  IndexedTuple(expr, index)              *)
(*   IndexedStruct(expr, name)  MethodCall(expr, call)  Operator  Garbage   *)
(* A Call is [namespace, name, args], args a sequence of <<label, expr>>.   *)
(* A checked node carries the same fields plus ty.  A CheckedCall has two   *)
(* history fields that the source does not store: callee, the FunctionId    *)
(* resolve_call found (None when it found none, or for println/eprintln),   *)
(* and err, the error the check of the call returned.                       *)

AssignmentOperators ==
    {"Assign", "AddAssign", "SubtractAssign", "MultiplyAssign", "DivideAssign",
     "BitwiseAndAssign", "BitwiseOrAssign", "BitwiseXorAssign",
     "BitwiseLeftShiftAssign", "BitwiseRightShiftAssign"}

NumericTags == IntegerTags \cup {"F32", "F64"}

UnaryNode(expr, op, ty) == [k |-> "UnaryOp", expr |-> expr, op |-> op, ty |-> ty]

typecheck_dereference_ignoring_mode(expr, op, safety_mode) ==
    IF ty_of(expr).k = "RawPtr"
    THEN <<UnaryNode(expr, op, ty_of(expr).of), None>>
    ELSE <<UnaryNode(expr, op, Unknown),
           TypecheckError("dereference of a non-pointer value")>>

\* the UnaryOperator::Dereference arm of typecheck_unary_operation
typecheck_dereference(expr, op, safety_mode) ==
    IF ty_of(expr).k = "RawPtr" THEN
        IF safety_mode = "Unsafe"
        THEN <<UnaryNode(expr, op, ty_of(expr).of), None>>
        ELSE <<UnaryNode(expr, op, ty_of(expr).of),
               TypecheckError("dereference of raw pointer outside of unsafe block")>>
    ELSE <<UnaryNode(expr, op, Unknown),
           TypecheckError("dereference of a non-pointer value")>>

\* typecheck_unary_operation: <<CheckedExpression, error>>
typecheck_unary_operation(expr, op, sid, p, safety_mode) ==
    With(ty_of(expr), LAMBDA expr_ty :
    CASE op.k = "TypeCast" ->
            With(typecheck_typename(op.ty, sid, p), LAMBDA r :
                <<UnaryNode(expr, op, r[1]), r[2]>>)
      [] op.k = "Dereference" -> typecheck_dereference(expr, op, safety_mode)
      [] op.k = "RawAddress" -> <<UnaryNode(expr, op, RawPtr(expr_ty)), None>>
      [] op.k = "LogicalNot" -> <<UnaryNode(expr, op, expr_ty), None>>
      [] op.k = "BitwiseNot" -> <<UnaryNode(expr, op, expr_ty), None>>
      [] op.k = "Negate" ->
            IF expr_ty.k \in NumericTags
            THEN <<UnaryNode(expr, op, expr_ty), None>>
            ELSE <<UnaryNode(expr, op, expr_ty), TypecheckError("negate on non-numeric value")>>
      [] op.k \in {"PostDecrement", "PostIncrement", "PreDecrement", "PreIncrement"} ->
            IF expr_ty.k \in NumericTags THEN
                IF ~is_mutable(expr)
                THEN <<UnaryNode(expr, op, expr_ty),
                       TypecheckError("increment/decrement of immutable variable")>>
                ELSE <<UnaryNode(expr, op, expr_ty), None>>
            ELSE <<UnaryNode(expr, op, expr_ty),
                   TypecheckError("unary operation on non-numeric value")>>)

\* typecheck_binary_operation: <<Type, error>>
typecheck_binary_operation(lhs, op, rhs) ==
    CASE op \in {"LogicalAnd", "LogicalOr"} -> <<Ty("Bool"), None>>
      [] op \in AssignmentOperators ->
            IF ty_of(lhs) # ty_of(rhs)
            THEN <<ty_of(lhs), TypecheckError("assignment between incompatible types")>>
            ELSE IF ~is_mutable(lhs)
            THEN <<ty_of(lhs), TypecheckError("assignment to immutable variable")>>
            ELSE <<ty_of(lhs), None>>
      [] OTHER -> <<ty_of(lhs), None>>

\* resolve_call: <<the FunctionId of the callee, if any; error>>
resolve_call(call, sid, p) ==
    IF Len(call.namespace) > 0 THEN
        With(find_struct_in_scope(p, sid, call.namespace[1]), LAMBDA struct_id :
            IF struct_id # None
            THEN <<find_function_in_scope(p, StructAt(p, Unwrap(struct_id)).scope_id,
                                          call.name),
                   None>>
            ELSE <<None,
                   TypecheckError("unknown namespace or class: " \o call.namespace[1])>>)
    ELSE
        With(find_function_in_scope(p, sid, call.name), LAMBDA function_id :
            IF function_id # None THEN <<function_id, None>>
            ELSE <<None, TypecheckError("call to unknown function: " \o call.name)>>)

CheckedCall(namespace, name, args, ty, callee, err) ==
    [namespace |-> namespace, name |-> name, args |-> args, ty |-> ty,
     callee |-> callee, err |-> err]

WrongLabel == TypecheckError("Wrong parameter name in argument label")

LabelError_for_variables_too(arg, param, label_param, error0) ==
    IF label_param.requires_label /\ arg[1] # param.variable.name
    THEN Or(error0, WrongLabel) ELSE error0

\* the label check of one argument: a variable named like the parameter may
\* drop its label; label_param is the parameter whose requires_label is read
\* when the argument is not a variable
LabelError(arg, param, label_param, error0) ==
    IF arg[2].k = "Var"
    THEN IF /\ arg[2].name # param.variable.name
            /\ param.requires_label
            /\ arg[1] # param.variable.name
         THEN Or(error0, WrongLabel) ELSE error0
    ELSE IF label_param.requires_label /\ arg[1] # param.variable.name
         THEN Or(error0, WrongLabel) ELSE error0

\* promotion of one checked argument to the parameter's type and the type
\* comparison that follows: [args, error] with the argument appended
PassArg(arg, param, checked_arg, error0, acc) ==
    With(try_promote_constant_expr_to_type(param.variable.ty, checked_arg), LAMBDA pr :
        [args |-> Append(acc.args, <<arg[1], pr[1]>>),
         error |-> IF ty_of(pr[1]) # param.variable.ty
                   THEN Or(Or(error0, pr[2]), TypecheckError("Parameter type mismatch"))
                   ELSE Or(error0, pr[2])])

RECURSIVE typecheck_expression(_, _, _, _)
RECURSIVE typecheck_call(_, _, _, _)
RECURSIVE typecheck_method_call(_, _, _, _, _)
RECURSIVE VectorItems(_, _, _, _, _, _)
RECURSIVE TupleItems(_, _, _, _, _, _)
RECURSIVE PrintArgs(_, _, _, _, _, _)
RECURSIVE CallArgs(_, _, _, _, _, _, _)
RECURSIVE MethodCallArgs(_, _, _, _, _, _, _)

\* one element of a vector literal added to acc = [inner_ty, output, error]
VectorItem(r, acc) ==
    IF acc.inner_ty = Unknown
    THEN [inner_ty |-> ty_of(r[1]), output |-> Append(acc.output, r[1]),
          error |-> Or(acc.error, r[2])]
    ELSE [inner_ty |-> acc.inner_ty, output |-> Append(acc.output, r[1]),
          error |-> IF acc.inner_ty # ty_of(r[1])
                    THEN Or(Or(acc.error, r[2]), TypecheckError(
                         "does not match type of previous values in vector"))
                    ELSE Or(acc.error, r[2])]

\* the loop over the elements of a vector literal, from element i on
VectorItems(vec, i, sid, p, safety_mode, acc) ==
    IF i > Len(vec) THEN acc
    ELSE VectorItems(vec, i + 1, sid, p, safety_mode,
            VectorItem(typecheck_expression(vec[i], sid, p, safety_mode), acc))

\* one item of a tuple added to acc = [items, types, error]
TupleItem(r, acc) ==
    [items |-> Append(acc.items, r[1]),
     types |-> Append(acc.types, ty_of(r[1])),
     error |-> Or(acc.error, r[2])]

\* the loop over the items of a tuple
TupleItems(items, i, sid, p, safety_mode, acc) ==
    IF i > Len(items) THEN acc
    ELSE TupleItems(items, i + 1, sid, p, safety_mode,
            TupleItem(typecheck_expression(items[i], sid, p, safety_mode), acc))

\* one argument of println / eprintln added to acc = [args, error, return_ty]
PrintArg(label, r, acc) ==
    [args |-> Append(acc.args, <<label, r[1]>>),
     error |-> Or(acc.error, r[2]),
     return_ty |-> Ty("Void")]

\* the println / eprintln loop
PrintArgs(args, i, sid, p, safety_mode, acc) ==
    IF i > Len(args) THEN acc
    ELSE PrintArgs(args, i + 1, sid, p, safety_mode,
            PrintArg(args[i][1], typecheck_expression(args[i][2], sid, p, safety_mode),
                     acc))

CallArg_not_pushed(arg, param, label_param, r, acc) ==
    [args |-> acc.args,
     error |-> PassArg(arg, param, r[1],
                       LabelError(arg, param, label_param, Or(acc.error, r[2])),
                       acc).error]

\* one argument of a call checked against its parameter
CallArg(arg, param, label_param, r, acc) ==
    PassArg(arg, param, r[1], LabelError(arg, param, label_param, Or(acc.error, r[2])),
            acc)

\* the argument loop of typecheck_call from idx (0-based) on; acc is [args, error]
CallArgs(call, callee, i, sid, p, safety_mode, acc) ==
    IF ~(i < Len(call.args)) THEN acc
    ELSE CallArgs(call, callee, i + 1, sid, p, safety_mode,
            CallArg(call.args[i + 1], callee.params[i + 1], callee.params[i + 1],
                    typecheck_expression(call.args[i + 1][2], sid, p, safety_mode),
                    acc))

\* the argument loop of typecheck_method_call from idx (0-based) on: the
\* parameter is callee.params[idx + 1], the label of a non-variable argument
\* is required by callee.params[idx]
MethodCallArgs(call, callee, i, sid, p, safety_mode, acc) ==
    IF ~(i < Len(call.args)) THEN acc
    ELSE MethodCallArgs(call, callee, i + 1, sid, p, safety_mode,
            CallArg(call.args[i + 1], callee.params[i + 2], callee.params[i + 1],
                    typecheck_expression(call.args[i + 1][2], sid, p, safety_mode),
                    acc))

\* the result of a call whose callee was not found
UnresolvedCall(namespace, name, error0) ==
    <<CheckedCall(namespace, name, <<>>, Unknown, None, error0), error0>>

\* the result of a call whose argument count differs from the callee's
WrongArity(namespace, name, callee, function_id, error0) ==
    <<CheckedCall(namespace, name, <<>>, callee.return_type, function_id, error0), error0>>

\* the result of a call whose arguments were checked; acc is [args, error]
CheckedArgs(namespace, name, callee, function_id, acc) ==
    <<CheckedCall(namespace, name, acc.args, callee.return_type, function_id, acc.error),
      acc.error>>

\* the result of println / eprintln; acc is [args, error, return_ty]
PrintCall(call, acc) ==
    <<CheckedCall(call.namespace, call.name, acc.args, acc.return_ty, None, acc.error),
      acc.error>>

\* typecheck_call: <<CheckedCall, error>>
typecheck_call(call, sid, p, safety_mode) ==
    IF call.name \in {"println", "eprintln"} THEN
        PrintCall(call, PrintArgs(call.args, 1, sid, p, safety_mode,
                      [args |-> <<>>, error |-> None, return_ty |-> Unknown]))
    ELSE
        With(resolve_call(call, sid, p), LAMBDA rc :
        IF rc[1] = None
        THEN UnresolvedCall(call.namespace, call.name, rc[2])
        ELSE
          With(FunAt(p, Unwrap(rc[1])), LAMBDA callee :
          IF Len(callee.params) # Len(call.args)
          THEN WrongArity(call.namespace, call.name, callee, rc[1],
                          Or(rc[2], TypecheckError("wrong number of arguments")))
          ELSE CheckedArgs(call.namespace, call.name, callee, rc[1],
                  CallArgs(call, callee, 0, sid, p, safety_mode,
                           [args |-> <<>>, error |-> rc[2]]))))

\* typecheck_method_call: <<CheckedCall, error>>
typecheck_method_call(call, sid, p, struct_id, safety_mode) ==
    With(resolve_call(call, StructAt(p, struct_id).scope_id, p), LAMBDA rc :
    IF rc[1] = None
    THEN UnresolvedCall(<<>>, call.name, rc[2])
    ELSE
      With(FunAt(p, Unwrap(rc[1])), LAMBDA callee :
      IF Len(callee.params) # Len(call.args) + 1
      THEN WrongArity(<<>>, call.name, callee, rc[1],
                      Or(rc[2], TypecheckError("wrong number of arguments")))
      ELSE CheckedArgs(<<>>, call.name, callee, rc[1],
              MethodCallArgs(call, callee, 0, sid, p, safety_mode,
                             [args |-> <<>>, error |-> rc[2]]))))

NoMethods == TypecheckError("no methods available on value")

\* Expression::MethodCall once a record to look in is found
MethodCallOn(checked_expr, call, sid, p, struct_id, safety_mode, error0) ==
    With(typecheck_method_call(call, sid, p, struct_id, safety_mode), LAMBDA r :
        <<[k |-> "MethodCall", expr |-> checked_expr, call |-> r[1], ty |-> r[1].ty],
          Or(error0, r[2])>>)

\* Expression::BinaryOp once both operands are checked
BinaryOp(l, op, r) ==
    With(try_promote_constant_expr_to_type(ty_of(l[1]), r[1]), LAMBDA pr :
    With(typecheck_binary_operation(l[1], op, pr[1]), LAMBDA b :
        <<[k |-> "BinaryOp", lhs |-> l[1], op |-> op, rhs |-> pr[1], ty |-> b[1]],
          Or(Or(Or(l[2], r[2]), pr[2]), b[2])>>))

\* Expression::IndexedExpression once operand and index are checked
IndexedExpression(c, i) ==
    IF ty_of(c[1]).k = "Vector" THEN
        IF is_integer(ty_of(i[1]))
        THEN <<[k |-> "IndexedExpression", expr |-> c[1], index |-> i[1],
                ty |-> ty_of(c[1]).of],
               Or(c[2], i[2])>>
        ELSE <<[k |-> "IndexedExpression", expr |-> c[1], index |-> i[1], ty |-> Unknown],
               Or(Or(c[2], i[2]), TypecheckError("index is not an integer"))>>
    ELSE <<[k |-> "IndexedExpression", expr |-> c[1], index |-> i[1], ty |-> Unknown],
           Or(Or(c[2], i[2]), TypecheckError("index used on value that can't be indexed"))>>

\* Expression::IndexedTuple once the operand is checked
IndexedTuple(c, index) ==
    IF ty_of(c[1]).k = "Tuple" THEN
        IF index < Len(ty_of(c[1]).ts)
        THEN <<[k |-> "IndexedTuple", expr |-> c[1], index |-> index,
                ty |-> ty_of(c[1]).ts[index + 1]],
               c[2]>>
        ELSE <<[k |-> "IndexedTuple", expr |-> c[1], index |-> index, ty |-> Unknown],
               Or(c[2], TypecheckError("tuple index past the end of the tuple"))>>
    ELSE <<[k |-> "IndexedTuple", expr |-> c[1], index |-> index, ty |-> Unknown],
           Or(c[2], TypecheckError("tuple index used non-tuple value"))>>

\* Expression::IndexedStruct once the operand is checked; a member that is
\* found returns at once with no error
IndexedStruct(c, name, p) ==
    IF ty_of(c[1]).k = "Struct" THEN
        With(StructAt(p, ty_of(c[1]).id), LAMBDA structure :
        With(FirstVar(structure.fields, name), LAMBDA member :
            IF member # None
            THEN <<[k |-> "IndexedStruct", expr |-> c[1], name |-> name,
                    ty |-> Unwrap(member).ty],
                   None>>
            ELSE <<[k |-> "IndexedStruct", expr |-> c[1], name |-> name, ty |-> Unknown],
                   Or(c[2], TypecheckError("unknown member of struct: "
                            \o structure.name \o "." \o name))>>))
    ELSE <<[k |-> "IndexedStruct", expr |-> c[1], name |-> name, ty |-> Unknown],
           Or(c[2], TypecheckError("member access of non-struct value"))>>

\* the record holding the methods of a builtin type, looked up in scope 0
BuiltinStruct(c, call, p, safety_mode, builtin) ==
    IF builtin # None
    THEN MethodCallOn(c[1], call, 0, p, Unwrap(builtin), safety_mode, c[2])
    ELSE <<Garbage, Or(c[2], NoMethods)>>

\* Expression::MethodCall once the receiver is checked
MethodCall(c, call, sid, p, safety_mode) ==
    CASE ty_of(c[1]).k = "Struct" ->
            MethodCallOn(c[1], call, sid, p, ty_of(c[1]).id, safety_mode, c[2])
      [] ty_of(c[1]).k = "String" ->
            BuiltinStruct(c, call, p, safety_mode, find_struct_in_scope(p, 0, "String"))
      [] ty_of(c[1]).k = "Vector" ->
            BuiltinStruct(c, call, p, safety_mode, find_struct_in_scope(p, 0, "RefVector"))
      [] OTHER -> <<Garbage, Or(c[2], NoMethods)>>

\* Expression::ForcedUnwrap once the operand is checked
ForcedUnwrap(c) ==
    IF ty_of(c[1]).k = "Optional"
    THEN <<[k |-> "ForcedUnwrap", expr |-> c[1], ty |-> ty_of(c[1]).of], c[2]>>
    ELSE <<[k |-> "ForcedUnwrap", expr |-> c[1], ty |-> Unknown],
           Or(c[2], TypecheckError("Forced unwrap only works on Optional"))>>

\* Expression::Vector once the fill expression (f, if any) is checked
VectorLiteral(expr, f, sid, p, safety_mode) ==
    With(VectorItems(expr.items, 1, sid, p, safety_mode,
                     [inner_ty |-> Unknown, output |-> <<>>,
                      error |-> IF expr.fill # None THEN f[2] ELSE None]), LAMBDA acc :
        <<[k |-> "Vector", items |-> acc.output,
           fill |-> IF expr.fill # None THEN Some(f[1]) ELSE None,
           ty |-> Vector(acc.inner_ty)],
          acc.error>>)

\* `let (x, err) = typecheck_expression(...)`, then F
Checked(expr, sid, p, safety_mode, F(_)) == F(typecheck_expression(expr, sid, p, safety_mode))

\* typecheck_expression: <<CheckedExpression, error>>
typecheck_expression(expr, sid, p, safety_mode) ==
    CASE expr.k = "BinaryOp" ->
            Checked(expr.lhs, sid, p, safety_mode, LAMBDA l :
                BinaryOp(l, expr.op, typecheck_expression(expr.rhs, sid, p, safety_mode)))
      [] expr.k = "UnaryOp" ->
            Checked(expr.expr, sid, p, safety_mode, LAMBDA c :
            With(typecheck_unary_operation(c[1], expr.op, sid, p, safety_mode), LAMBDA u :
                <<u[1], Or(c[2], u[2])>>))
      [] expr.k = "OptionalNone" -> <<[k |-> "OptionalNone", ty |-> Unknown], None>>
      [] expr.k = "OptionalSome" ->
            Checked(expr.expr, sid, p, safety_mode, LAMBDA c :
                <<[k |-> "OptionalSome", expr |-> c[1], ty |-> ty_of(c[1])], c[2]>>)
      [] expr.k = "ForcedUnwrap" ->
            Checked(expr.expr, sid, p, safety_mode, LAMBDA c : ForcedUnwrap(c))
      [] expr.k = "Boolean" -> <<[k |-> "Boolean", b |-> expr.b], None>>
      [] expr.k = "Call" ->
            With(typecheck_call(expr.call, sid, p, safety_mode), LAMBDA c :
                <<[k |-> "Call", call |-> c[1], ty |-> c[1].ty], c[2]>>)
      [] expr.k = "NumericConstant" ->
            <<[k |-> "NumericConstant", constant |-> expr.constant,
               ty |-> constant_ty(expr.constant)], None>>
      [] expr.k = "QuotedString" -> <<[k |-> "QuotedString", s |-> expr.s], None>>
      [] expr.k = "CharacterLiteral" -> <<[k |-> "CharacterConstant", c |-> expr.c], None>>
      [] expr.k = "Var" ->
            With(find_var_in_scope(p, sid, expr.name), LAMBDA var :
                IF var # None
                THEN <<[k |-> "Var", var |-> Unwrap(var)], None>>
                ELSE <<[k |-> "Var", var |-> CheckedVariable(expr.name, Unknown, FALSE)],
                       TypecheckError("variable not found")>>)
      [] expr.k = "Vector" ->
            IF expr.fill # None
            THEN Checked(Unwrap(expr.fill), sid, p, safety_mode, LAMBDA f :
                     VectorLiteral(expr, f, sid, p, safety_mode))
            ELSE VectorLiteral(expr, <<Garbage, None>>, sid, p, safety_mode)
      [] expr.k = "Tuple" ->
            With(TupleItems(expr.items, 1, sid, p, safety_mode,
                            [items |-> <<>>, types |-> <<>>, error |-> None]), LAMBDA acc :
                <<[k |-> "Tuple", items |-> acc.items, ty |-> Tuple(acc.types)], acc.error>>)
      [] expr.k = "IndexedExpression" ->
            Checked(expr.expr, sid, p, safety_mode, LAMBDA c :
                IndexedExpression(c, typecheck_expression(expr.index, sid, p, safety_mode)))
      [] expr.k = "IndexedTuple" ->
            Checked(expr.expr, sid, p, safety_mode, LAMBDA c : IndexedTuple(c, expr.index))
      [] expr.k = "IndexedStruct" ->
            Checked(expr.expr, sid, p, safety_mode, LAMBDA c : IndexedStruct(c, expr.name, p))
      [] expr.k = "MethodCall" ->
            Checked(expr.expr, sid, p, safety_mode, LAMBDA c :
                MethodCall(c, expr.call, sid, p, safety_mode))
      [] expr.k \in {"Operator", "Garbage"} ->
            <<Garbage, TypecheckError("garbage in expression")>>

-----------------------------------------------------------------------------
(* Statements and blocks.  A parsed Statement is a record with a tag k:     *)
(*   Expression(expr)  Defer(stmt)  UnsafeBlock(block)                      *)
(*   VarDecl(var_decl, init)  If(cond, block, else_stmt)                    *)
(*   While(cond, block)  Return(expr)  Block(block)  Garbage                *)
(* A Block is [stmts].  The checkers take &mut Project: they return the     *)
(* checked node, the error and the project after the call.                  *)

RECURSIVE typecheck_statement(_, _, _, _)
RECURSIVE typecheck_block(_, _, _, _)
RECURSIVE BlockStmts(_, _, _, _, _)

\* one checked statement r added to acc = [block, err, project]
BlockStmt(r, acc) ==
    [block |-> [stmts |-> Append(acc.block.stmts, r.stmt)],
     err |-> Or(acc.err, r.err),
     project |-> r.project]

\* the statement loop of typecheck_block from statement i on
BlockStmts(stmts, i, block_scope_id, safety_mode, acc) ==
    IF i > Len(stmts) THEN acc
    ELSE BlockStmts(stmts, i + 1, block_scope_id, safety_mode,
            BlockStmt(typecheck_statement(stmts[i], block_scope_id, acc.project,
                                          safety_mode),
                      acc))

typecheck_block_in_parent_scope(block, parent_scope_id, p, safety_mode) ==
    With(create_scope(p, parent_scope_id), LAMBDA cs :
        BlockStmts(block.stmts, 1, parent_scope_id, safety_mode,
                   [block |-> NewCheckedBlock, err |-> None, project |-> cs[1]]))

\* typecheck_block: [block, err, project]
typecheck_block(block, parent_scope_id, p, safety_mode) ==
    With(create_scope(p, parent_scope_id), LAMBDA cs :
        BlockStmts(block.stmts, 1, cs[2], safety_mode,
                   [block |-> NewCheckedBlock, err |-> None, project |-> cs[1]]))

\* Statement::VarDecl from the promotion of the initialiser on
DeclareVar(var_decl, checked_type, init, error0, sid, p) ==
    With(try_promote_constant_expr_to_type(checked_type, init), LAMBDA pr :
    With(CheckedVarDecl(var_decl.name, checked_type, var_decl.mutable),
         LAMBDA checked_var_decl :
    With(add_var_to_scope(p, sid,
            CheckedVariable(checked_var_decl.name, checked_var_decl.ty,
                            checked_var_decl.mutable)), LAMBDA a :
        [stmt |-> [k |-> "VarDecl", var_decl |-> checked_var_decl, init |-> pr[1]],
         err |-> Or(Or(error0, pr[2]), a.err),
         project |-> a.project])))

\* the Statement::VarDecl arm of typecheck_statement: an initialiser of known
\* type is adopted when the declared type is unknown, and the error of the
\* type name is then dropped
typecheck_var_decl(stmt, sid, p, safety_mode) ==
    With(typecheck_expression(stmt.init, sid, p, safety_mode), LAMBDA c :
    With(typecheck_typename(stmt.var_decl.ty, sid, p), LAMBDA t :
        IF t[1] = Unknown /\ ty_of(c[1]) # Unknown
        THEN DeclareVar(stmt.var_decl, ty_of(c[1]), c[1], c[2], sid, p)
        ELSE DeclareVar(stmt.var_decl, t[1], c[1], Or(c[2], t[2]), sid, p)))

\* Statement::If once the condition c and the block b are checked
IfStmt(stmt, c, b, sid, safety_mode) ==
    IF stmt.else_stmt # None
    THEN With(typecheck_statement(Unwrap(stmt.else_stmt), sid, b.project, safety_mode),
              LAMBDA e :
            [stmt |-> [k |-> "If", cond |-> c[1], block |-> b.block,
                       else_stmt |-> Some(e.stmt)],
             err |-> Or(Or(c[2], b.err), e.err),
             project |-> e.project])
    ELSE [stmt |-> [k |-> "If", cond |-> c[1], block |-> b.block, else_stmt |-> None],
          err |-> Or(c[2], b.err),
          project |-> b.project]

\* Statement::While once the condition c and the block b are checked
WhileStmt(c, b) ==
    [stmt |-> [k |-> "While", cond |-> c[1], block |-> b.block],
     err |-> Or(c[2], b.err), project |-> b.project]

\* a checked block r as a statement
BlockStmtOf(r) ==
    [stmt |-> [k |-> "Block", block |-> r.block], err |-> r.err, project |-> r.project]

\* the Statement::UnsafeBlock arm with the enclosing mode handed to the block
UnsafeBlockStmt_in_enclosing_mode(stmt, sid, p, safety_mode) ==
    BlockStmtOf(typecheck_block(stmt.block, sid, p, safety_mode))

\* the Statement::UnsafeBlock arm of typecheck_statement
UnsafeBlockStmt(stmt, sid, p, safety_mode) ==
    BlockStmtOf(typecheck_block(stmt.block, sid, p, "Unsafe"))

\* typecheck_statement: [stmt, err, project]
typecheck_statement(stmt, sid, p, safety_mode) ==
    CASE stmt.k = "Expression" ->
            With(typecheck_expression(stmt.expr, sid, p, safety_mode), LAMBDA c :
                [stmt |-> [k |-> "Expression", expr |-> c[1]], err |-> c[2],
                 project |-> p])
      [] stmt.k = "Defer" ->
            With(typecheck_statement(stmt.stmt, sid, p, safety_mode), LAMBDA r :
                [stmt |-> [k |-> "Defer", stmt |-> r.stmt], err |-> r.err,
                 project |-> r.project])
      [] stmt.k = "UnsafeBlock" -> UnsafeBlockStmt(stmt, sid, p, safety_mode)
      [] stmt.k = "VarDecl" -> typecheck_var_decl(stmt, sid, p, safety_mode)
      [] stmt.k = "If" ->
            IfStmt(stmt, typecheck_expression(stmt.cond, sid, p, safety_mode),
                   typecheck_block(stmt.block, sid, p, safety_mode), sid, safety_mode)
      [] stmt.k = "While" ->
            WhileStmt(typecheck_expression(stmt.cond, sid, p, safety_mode),
                      typecheck_block(stmt.block, sid, p, safety_mode))
      [] stmt.k = "Return" ->
            With(typecheck_expression(stmt.expr, sid, p, safety_mode), LAMBDA c :
                [stmt |-> [k |-> "Return", expr |-> c[1]], err |-> c[2], project |-> p])
      [] stmt.k = "Block" -> BlockStmtOf(typecheck_block(stmt.block, sid, p, safety_mode))
      [] stmt.k = "Garbage" -> [stmt |-> Garbage, err |-> None, project |-> p]

-----------------------------------------------------------------------------
(* Declarations.  A parsed Function is [name, params, block, return_type,   *)
(* linkage], a parameter [requires_label, variable: [name, ty, mutable]];   *)
(* a parsed Struct is [name, fields, methods, definition_linkage,           *)
(* definition_type], a field [name, ty, mutable].  Each pass returns        *)
(* [project, err].                                                          *)

CheckedFunction(name, return_type, params, block, linkage) ==
    [name |-> name, return_type |-> return_type, params |-> params,
     block |-> block, linkage |-> linkage]

\* one parameter of a predeclared function added to acc = [params, err];
\* t is <<its type, the error of resolving it>>
PredeclParam(param, t, acc) ==
    [params |-> Append(acc.params,
        CheckedParameter(param.requires_label,
            CheckedVariable(param.variable.name, t[1], param.variable.mutable))),
     err |-> Or(acc.err, t[2])]

RECURSIVE PredeclParams(_, _, _, _, _, _)
\* the parameter loop of typecheck_struct_predecl (this_ty = Some(Struct(id)))
\* and of typecheck_fun_predecl (this_ty = None)
PredeclParams(params, i, sid, p, this_ty, acc) ==
    IF i > Len(params) THEN acc
    ELSE IF this_ty # None /\ params[i].variable.name = "this"
         THEN PredeclParams(params, i + 1, sid, p, this_ty,
                  PredeclParam(params[i], <<Unwrap(this_ty), None>>, acc))
         ELSE PredeclParams(params, i + 1, sid, p, this_ty,
                  PredeclParam(params[i],
                               typecheck_typename(params[i].variable.ty, sid, p), acc))

\* a function predeclared with parameters ps = [params, err] is pushed on
\* p.funs and bound to its name in scope sid: [project, err]
PredeclFunction(fun, ps, sid, p) ==
    With(add_function_to_scope(
            [p EXCEPT !.funs = Append(@,
                CheckedFunction(fun.name, Unknown, ps.params, NewCheckedBlock,
                                fun.linkage))],
            sid, fun.name, Len(p.funs)), LAMBDA a :
        [project |-> a.project, err |-> Or(ps.err, a.err)])

RECURSIVE PredeclMethods(_, _, _, _, _)
\* the method loop of typecheck_struct_predecl; acc is [project, err]
PredeclMethods(methods, i, struct_id, struct_scope_id, acc) ==
    IF i > Len(methods) THEN acc
    ELSE PredeclMethods(methods, i + 1, struct_id, struct_scope_id,
            PredeclFunction(methods[i],
                PredeclParams(methods[i].params, 1, struct_scope_id, acc.project,
                              Some(StructTy(struct_id)),
                              [params |-> <<>>, err |-> acc.err]),
                struct_scope_id, acc.project))

PredeclStruct_bound_to_next_id(structure, struct_id, struct_scope_id, parent_scope_id, m) ==
    With(add_struct_to_scope(
            [m.project EXCEPT !.structs = Append(@,
                [name |-> structure.name, fields |-> <<>>,
                 scope_id |-> struct_scope_id,
                 definition_linkage |-> structure.definition_linkage,
                 definition_type |-> structure.definition_type])],
            parent_scope_id, structure.name, struct_id + 1), LAMBDA a :
        [project |-> a.project, err |-> Or(m.err, a.err)])

\* the record is pushed on p.structs and bound to its name; m is the
\* [project, err] left by the method loop
PredeclStruct(structure, struct_id, struct_scope_id, parent_scope_id, m) ==
    With(add_struct_to_scope(
            [m.project EXCEPT !.structs = Append(@,
                [name |-> structure.name, fields |-> <<>>,
                 scope_id |-> struct_scope_id,
                 definition_linkage |-> structure.definition_linkage,
                 definition_type |-> structure.definition_type])],
            parent_scope_id, structure.name, struct_id), LAMBDA a :
        [project |-> a.project, err |-> Or(m.err, a.err)])

\* typecheck_struct_predecl: [project, err]
typecheck_struct_predecl(structure, struct_id, parent_scope_id, p) ==
    With(create_scope(p, parent_scope_id), LAMBDA cs :
        PredeclStruct(structure, struct_id, cs[2], parent_scope_id,
            PredeclMethods(structure.methods, 1, struct_id, cs[2],
                           [project |-> cs[1], err |-> None])))

\* typecheck_fun_predecl: [project, err]
typecheck_fun_predecl(fun, parent_scope_id, p) ==
    PredeclFunction(fun,
        PredeclParams(fun.params, 1, parent_scope_id, p, None,
                      [params |-> <<>>, err |-> None]),
        parent_scope_id, p)

\* a field put in front of the fields checked before it
StructField_in_front(member, t, acc) ==
    [fields |-> <<CheckedVarDecl(member.name, t[1], member.mutable)>> \o acc.fields,
     err |-> Or(acc.err, t[2])]

\* one field of a record added to acc = [fields, err]
StructField(member, t, acc) ==
    [fields |-> Append(acc.fields, CheckedVarDecl(member.name, t[1], member.mutable)),
     err |-> Or(acc.err, t[2])]

RECURSIVE StructFields(_, _, _, _, _)
\* the field loop of typecheck_struct
StructFields(members, i, parent_scope_id, p, acc) ==
    IF i > Len(members) THEN acc
    ELSE StructFields(members, i + 1, parent_scope_id, p,
            StructField(members[i], typecheck_typename(members[i].ty, parent_scope_id, p),
                        acc))

Constructor_unlabelled(structure, struct_id, fields) ==
    CheckedFunction(structure.name, StructTy(struct_id),
        [i \in 1..Len(fields) |->
            CheckedParameter(FALSE,
                CheckedVariable(fields[i].name, fields[i].ty, fields[i].mutable))],
        NewCheckedBlock, "ImplicitConstructor")

\* the implicit constructor of a record with checked fields
Constructor(structure, struct_id, fields) ==
    CheckedFunction(structure.name, StructTy(struct_id),
        [i \in 1..Len(fields) |->
            CheckedParameter(TRUE,
                CheckedVariable(fields[i].name, fields[i].ty, fields[i].mutable))],
        NewCheckedBlock, "ImplicitConstructor")

\* the constructor, last of p1.funs, is bound to the record's name in the
\* record's scope and in the parent scope
BindConstructor(structure, struct_id, parent_scope_id, p1, error0) ==
    With(add_function_to_scope(p1, StructAt(p1, struct_id).scope_id, structure.name,
                               Len(p1.funs) - 1), LAMBDA a1 :
    With(add_function_to_scope(a1.project, parent_scope_id, structure.name,
                               Len(a1.project.funs) - 1), LAMBDA a2 :
        [project |-> a2.project, err |-> Or(Or(error0, a1.err), a2.err)]))

\* typecheck_struct up to its method loop: fields and implicit constructor
typecheck_struct_members(structure, struct_id, parent_scope_id, p) ==
    With(StructFields(structure.fields, 1, parent_scope_id, p,
                      [fields |-> <<>>, err |-> None]), LAMBDA f :
        BindConstructor(structure, struct_id, parent_scope_id,
            [p EXCEPT !.structs[struct_id + 1].fields = f.fields,
                      !.funs = Append(@, Constructor(structure, struct_id, f.fields))],
            f.err))

\* one parameter added as a variable; acc is [project, err]
AddParamVar(a, acc) == [project |-> a.project, err |-> Or(acc.err, a.err)]

RECURSIVE AddParamVars(_, _, _, _)
\* the loop adding each parameter as a variable
AddParamVars(params, i, function_scope_id, acc) ==
    IF i > Len(params) THEN acc
    ELSE AddParamVars(params, i + 1, function_scope_id,
            AddParamVar(add_var_to_scope(acc.project, function_scope_id,
                                         params[i].variable),
                        acc))

ReturnType_of_last_statement(declared, block) ==
    IF declared = Unknown
    THEN IF Len(block.stmts) > 0 /\ block.stmts[Len(block.stmts)].k = "Return"
         THEN ty_of(block.stmts[Len(block.stmts)].expr)
         ELSE Ty("Void")
    ELSE declared

\* the return type of a function: the declared one, else the type of a
\* leading return statement, else void
ReturnType(declared, block) ==
    IF declared = Unknown
    THEN IF Len(block.stmts) > 0 /\ block.stmts[1].k = "Return"
         THEN ty_of(block.stmts[1].expr)
         ELSE Ty("Void")
    ELSE declared

StoreBody_replacing(function_id, v, b, t) ==
    [project |-> [b.project EXCEPT
                    !.funs[function_id + 1].block = b.block,
                    !.funs[function_id + 1].params = <<>>,
                    !.funs[function_id + 1].return_type = ReturnType(t[1], b.block)],
     err |-> Or(Or(v.err, b.err), t[2]),
     panic |-> FALSE]

\* the checked block b and the return type t are stored in the function
StoreBody(function_id, v, b, t) ==
    [project |-> [b.project EXCEPT
                    !.funs[function_id + 1].block = b.block,
                    !.funs[function_id + 1].return_type = ReturnType(t[1], b.block)],
     err |-> Or(Or(v.err, b.err), t[2]),
     panic |-> FALSE]

\* the body of typecheck_fun and typecheck_method once the function id is
\* known: parameters, block, return type; typename_scope_id is the scope the
\* declared return type is resolved in (parent_scope_id in both callers)
CheckBody(fun, function_id, function_scope_id, typename_scope_id, p) ==
    With(AddParamVars(FunAt(p, function_id).params, 1, function_scope_id,
                      [project |-> p, err |-> None]), LAMBDA v :
    With(typecheck_block(fun.block, function_scope_id, v.project, "Safe"), LAMBDA b :
        StoreBody(function_id, v, b,
                  typecheck_typename(fun.return_type, typename_scope_id, b.project))))

\* the function found by name, or the panic of expect()
BodyOf(fun, function_id, function_scope_id, parent_scope_id, p) ==
    IF function_id = None
    THEN [project |-> p, err |-> None, panic |-> TRUE]
    ELSE CheckBody(fun, Unwrap(function_id), function_scope_id, parent_scope_id, p)

\* typecheck_fun: [project, err, panic]
typecheck_fun(fun, parent_scope_id, p) ==
    With(create_scope(p, parent_scope_id), LAMBDA cs :
        BodyOf(fun, find_function_in_scope(cs[1], parent_scope_id, fun.name),
               cs[2], parent_scope_id, cs[1]))

\* typecheck_method: [project, err, panic]
typecheck_method(fun, parent_scope_id, p, struct_id) ==
    With(create_scope(p, parent_scope_id), LAMBDA cs :
        BodyOf(fun,
               find_function_in_scope(cs[1], StructAt(cs[1], struct_id).scope_id,
                                      fun.name),
               cs[2], parent_scope_id, cs[1]))

-----------------------------------------------------------------------------
(* Parsed files the model checks *)

MaxDecls == 3     \* declarations (records and functions) per parsed file

Lit(n) == [k |-> "NumericConstant",
           constant |-> NumericConstant("I64", <<n>> \o Fill(7, 0))]
VarE(name) == [k |-> "Var", name |-> name]
CallE(namespace, name, args) ==
    [k |-> "Call", call |-> [namespace |-> namespace, name |-> name, args |-> args]]
MethodCallE(expr, name, args) ==
    [k |-> "MethodCall", expr |-> expr,
     call |-> [namespace |-> <<>>, name |-> name, args |-> args]]
ExprS(e) == [k |-> "Expression", expr |-> e]
ReturnS(e) == [k |-> "Return", expr |-> e]
LetS(name, ty, e) ==
    [k |-> "VarDecl", var_decl |-> [name |-> name, ty |-> ty, mutable |-> FALSE],
     init |-> e]
Param(requires_label, name, ty) ==
    [requires_label |-> requires_label,
     variable |-> [name |-> name, ty |-> ty, mutable |-> FALSE]]
This == Param(FALSE, "this", Empty)
Fn(name, params, return_type, stmts) ==
    [name |-> name, params |-> params, block |-> [stmts |-> stmts],
     return_type |-> return_type, linkage |-> "Internal"]
Field(name, ty) == [name |-> name, ty |-> ty, mutable |-> FALSE]
Record(name, fields, methods) ==
    [name |-> name, fields |-> fields, methods |-> methods,
     definition_linkage |-> "Internal", definition_type |-> "Struct"]

StructTemplates ==
    { \* struct A { x: i32  fn get(this) -> i32 { return this.x }
      \*            fn peer(this, other: B) { B() } }
      Record("A", <<Field("x", Name("i32"))>>,
             << Fn("get", <<This>>, Name("i32"),
                   <<ReturnS([k |-> "IndexedStruct", expr |-> VarE("this"), name |-> "x"])>>),
                Fn("peer", <<This, Param(TRUE, "other", Name("B"))>>, Empty,
                   <<ExprS(CallE(<<>>, "B", <<>>))>>) >>),
      \* struct B { fn own(this, o: B) -> B { return o }  fn use() { f() } }
      Record("B", <<>>,
             << Fn("own", <<This, Param(FALSE, "o", Name("B"))>>, Name("B"),
                   <<ReturnS(VarE("o"))>>),
                Fn("use", <<>>, Empty, <<ExprS(CallE(<<>>, "f", <<>>))>>) >>),
      \* struct A { fn get(this) { }  fn get(this, n: i8) { } }
      Record("A", <<>>,
             << Fn("get", <<This>>, Empty, <<>>),
                Fn("get", <<This, Param(TRUE, "n", Name("i8"))>>, Empty, <<>>) >>),
      \* struct C { a: A  fn bad(p: Nope) { } }
      Record("C", <<Field("a", Name("A"))>>,
             << Fn("bad", <<Param(TRUE, "p", Name("Nope"))>>, Empty, <<>>) >>) }

FunTemplates ==
    { \* fn f() -> i32 { return 1 }
      Fn("f", <<>>, Name("i32"), <<ReturnS(Lit(1))>>),
      \* fn f() { return true }
      Fn("f", <<>>, Empty, <<ReturnS([k |-> "Boolean", b |-> TRUE])>>),
      \* fn g() { f() }
      Fn("g", <<>>, Empty, <<ExprS(CallE(<<>>, "f", <<>>))>>),
      \* fn h(n: i32) -> i32 { return h(n: 1) }
      Fn("h", <<Param(TRUE, "n", Name("i32"))>>, Name("i32"),
         <<ReturnS(CallE(<<>>, "h", << <<"n", Lit(1)>> >>))>>),
      \* fn k() { A::nope() }
      Fn("k", <<>>, Empty, <<ExprS(CallE(<<"A">>, "nope", <<>>))>>),
      \* fn m() { h()  A::get() }
      Fn("m", <<>>, Empty,
         <<ExprS(CallE(<<>>, "h", <<>>)), ExprS(CallE(<<"A">>, "get", <<>>))>>),
      \* fn n() { let a = A(x: 1)  a.get()  a.peer(other: B()) }
      Fn("n", <<>>, Empty,
         << LetS("a", Empty, CallE(<<>>, "A", << <<"x", Lit(1)>> >>)),
            ExprS(MethodCallE(VarE("a"), "get", <<>>)),
            ExprS(MethodCallE(VarE("a"), "peer",
                              << <<"other", CallE(<<>>, "B", <<>>)>> >>)) >>),
      \* fn o() { let z = None }
      Fn("o", <<>>, Empty, <<LetS("z", Empty, [k |-> "OptionalNone"])>>),
      \* fn p() { println()  println(1, f()) }
      Fn("p", <<>>, Empty,
         << ExprS(CallE(<<>>, "println", <<>>)),
            ExprS(CallE(<<>>, "println",
                        << <<"", Lit(1)>>, <<"", CallE(<<>>, "f", <<>>)>> >>)) >>) }

\* the sequences of n distinct elements of S
DistinctSeqs(S, n) ==
    {q \in [1..n -> S] : \A i, j \in 1..n : i # j => q[i] # q[j]}

\* the parsed files of at most n declarations taken from records S and
\* functions F
FilesFrom(S, F, n) ==
    UNION { { [structs |-> ss, funs |-> fs] :
                ss \in DistinctSeqs(S, c[1]),
                fs \in DistinctSeqs(F, c[2]) } :
            c \in {d \in (0..n) \X (0..n) : d[1] + d[2] <= n} }

FilesOf(n) == FilesFrom(StructTemplates, FunTemplates, n)

Files == FilesOf(MaxDecls)

-----------------------------------------------------------------------------
(* typecheck_file, one step per call it makes *)

\* where typecheck_file is after the loop `phase` has run for items 0..i-1
RECURSIVE At(_, _, _)
At(file, phase, i) ==
    CASE phase = "struct_predecl" ->
            IF i < Len(file.structs) THEN <<phase, i>> ELSE At(file, "fun_predecl", 0)
      [] phase = "fun_predecl" ->
            IF i < Len(file.funs) THEN <<phase, i>> ELSE At(file, "struct", 0)
      [] phase = "struct" ->
            IF i < Len(file.structs) THEN <<phase, i>> ELSE At(file, "fun", 0)
      [] phase = "fun" ->
            IF i < Len(file.funs) THEN <<phase, i>> ELSE <<"return", 0>>

\* the project typecheck_file is called on, and the scope id it is given:
\* the top-level scope of a new project, or a file scope created under it
Entries == { <<NewProject, 0>>, create_scope(NewProject, 0) }

Init ==
    /\ parsed_file \in Files
    /\ \E entry \in Entries : project = entry[1] /\ scope_id = entry[2]
    /\ pc = At(parsed_file, "struct_predecl", 0)[1]
    /\ idx = 0
    /\ midx = 0
    /\ error = None
    /\ project_struct_len = Len(project.structs)
    /\ bodies_checked = 0
    /\ funs_at_first_body = 0
    /\ first_error = None
    /\ input = None
    /\ output = None

Goto(at) == pc' = at[1] /\ idx' = at[2]

BodyChecked ==
    /\ bodies_checked' = bodies_checked + 1
    /\ funs_at_first_body' =
          IF bodies_checked = 0 THEN Len(project'.funs) ELSE funs_at_first_body

\* line 513: the value typecheck_struct_predecl returns is dropped
StructPredecl ==
    /\ pc = "struct_predecl"
    /\ \E r \in {typecheck_struct_predecl(parsed_file.structs[idx + 1],
                                         idx + project_struct_len, scope_id, project)} :
          project' = r.project /\ first_error' = Or(first_error, r.err)
    /\ Goto(At(parsed_file, "struct_predecl", idx + 1))
    /\ UNCHANGED <<parsed_file, scope_id, midx, error, project_struct_len,
                   bodies_checked, funs_at_first_body, input, output>>

FunPredecl ==
    /\ pc = "fun_predecl"
    /\ \E r \in {typecheck_fun_predecl(parsed_file.funs[idx + 1], scope_id, project)} :
          /\ project' = r.project
          /\ error' = Or(error, r.err)
          /\ first_error' = Or(first_error, r.err)
    /\ Goto(At(parsed_file, "fun_predecl", idx + 1))
    /\ UNCHANGED <<parsed_file, scope_id, midx, project_struct_len,
                   bodies_checked, funs_at_first_body, input, output>>

\* typecheck_struct up to its method loop.  The error local of
\* typecheck_struct is folded into that of typecheck_file as it goes:
\* Option::or is associative.
StructMembers ==
    /\ pc = "struct"
    /\ \E r \in {typecheck_struct_members(parsed_file.structs[idx + 1],
                                         idx + project_struct_len, scope_id, project)} :
          /\ project' = r.project
          /\ error' = Or(error, r.err)
          /\ first_error' = Or(first_error, r.err)
    /\ IF Len(parsed_file.structs[idx + 1].methods) > 0
       THEN pc' = "method" /\ idx' = idx
       ELSE Goto(At(parsed_file, "struct", idx + 1))
    /\ midx' = 0
    /\ UNCHANGED <<parsed_file, scope_id, project_struct_len,
                   bodies_checked, funs_at_first_body, input, output>>

\* one iteration of the method loop of typecheck_struct
Method ==
    /\ pc = "method"
    /\ \E r \in {typecheck_method(parsed_file.structs[idx + 1].methods[midx + 1],
                        StructAt(project, idx + project_struct_len).scope_id,
                        project, idx + project_struct_len)} :
           /\ project' = r.project
           /\ error' = Or(error, r.err)
           /\ first_error' = Or(first_error, r.err)
           /\ IF r.panic THEN pc' = "panic" /\ idx' = idx /\ midx' = midx
              ELSE IF midx + 1 < Len(parsed_file.structs[idx + 1].methods)
              THEN pc' = "method" /\ idx' = idx /\ midx' = midx + 1
              ELSE Goto(At(parsed_file, "struct", idx + 1)) /\ midx' = 0
    /\ BodyChecked
    /\ UNCHANGED <<parsed_file, scope_id, project_struct_len, input, output>>

Fun ==
    /\ pc = "fun"
    /\ \E r \in {typecheck_fun(parsed_file.funs[idx + 1], scope_id, project)} :
           /\ project' = r.project
           /\ error' = Or(error, r.err)
           /\ first_error' = Or(first_error, r.err)
           /\ IF r.panic THEN pc' = "panic" /\ idx' = idx
              ELSE Goto(At(parsed_file, "fun", idx + 1))
    /\ BodyChecked
    /\ UNCHANGED <<parsed_file, scope_id, midx, project_struct_len, input, output>>

\* line 534: typecheck_file returns `error`
Return ==
    /\ pc = "return"
    /\ pc' = "done"
    /\ output' = error
    /\ UNCHANGED <<project, parsed_file, scope_id, idx, midx, error,
                   project_struct_len, bodies_checked, funs_at_first_body,
                   first_error, input>>

Next == StructPredecl \/ FunPredecl \/ StructMembers \/ Method \/ Fun \/ Return

Spec == Init /\ [][Next]_vars


-----------------------------------------------------------------------------
(* What a project stores: the checked expressions of the bodies *)

Range(q) == {q[i] : i \in DOMAIN q}

\* the operands of a checked expression
Children(e) ==
    CASE e.k = "BinaryOp" -> {e.lhs, e.rhs}
      [] e.k \in {"UnaryOp", "OptionalSome", "ForcedUnwrap", "IndexedTuple",
                  "IndexedStruct"} -> {e.expr}
      [] e.k = "Call" -> {a[2] : a \in Range(e.call.args)}
      [] e.k = "MethodCall" -> {e.expr} \cup {a[2] : a \in Range(e.call.args)}
      [] e.k = "Vector" -> Range(e.items) \cup Range(e.fill)
      [] e.k = "Tuple" -> Range(e.items)
      [] e.k = "IndexedExpression" -> {e.expr, e.index}
      [] OTHER -> {}

\* a checked expression and every expression below it
RECURSIVE ExprsOf(_)
ExprsOf(e) == {e} \cup UNION {ExprsOf(c) : c \in Children(e)}

\* the checked expressions of a statement / of a block
RECURSIVE StmtExprs(_)
RECURSIVE BlockExprs(_)
StmtExprs(stmt) ==
    CASE stmt.k \in {"Expression", "Return"} -> ExprsOf(stmt.expr)
      [] stmt.k = "Defer" -> StmtExprs(stmt.stmt)
      [] stmt.k = "Block" -> BlockExprs(stmt.block)
      [] stmt.k = "VarDecl" -> ExprsOf(stmt.init)
      [] stmt.k = "If" ->
            ExprsOf(stmt.cond) \cup BlockExprs(stmt.block)
                \cup UNION {StmtExprs(e) : e \in Range(stmt.else_stmt)}
      [] stmt.k = "While" -> ExprsOf(stmt.cond) \cup BlockExprs(stmt.block)
      [] OTHER -> {}

BlockExprs(block) == UNION {StmtExprs(stmt) : stmt \in Range(block.stmts)}

\* every checked expression stored in a body of project.funs
StoredExprs(p) == UNION {BlockExprs(fun.block) : fun \in Range(p.funs)}

\* the Call and MethodCall nodes among them, println / eprintln left out
StoredCalls(p) ==
    {e \in StoredExprs(p) :
        e.k \in {"Call", "MethodCall"} /\ e.call.name \notin {"println", "eprintln"}}

\* the number of parameters a call node must supply: all of them for a free
\* call, all but the hidden this for a method call
Supplied(e, callee) ==
    IF e.k = "MethodCall" THEN Len(callee.params) - 1 ELSE Len(callee.params)

\* the number of methods of the records before record i of a file: record
\* predeclaration pushes the methods of a file in order, on a project that
\* holds no function yet, so method j of record i has this id plus j - 1
RECURSIVE MethodsBefore(_, _)
MethodsBefore(file, i) ==
    IF i = 1 THEN 0
    ELSE MethodsBefore(file, i - 1) + Len(file.structs[i - 1].methods)

\* the positions of the records of a file with that name
RecordsNamed(file, name) == {i \in DOMAIN file.structs : file.structs[i].name = name}

Returned == pc = "done"

-----------------------------------------------------------------------------
(* Properties of typecheck_file *)

\* C3: typecheck_file returns the first error its passes emitted, taken in
\* the order record predeclaration, function predeclaration, record
\* checking, function checking; it returns None only if none emitted any.
C3_FirstErrorReturned == Returned => output = first_error

\* C4: when typecheck_file returns, the type recorded on every call that
\* resolved to a function or method equals the return_type the callee then
\* has in project.funs.
C4_CallTypeIsReturnType ==
    Returned =>
        \A e \in StoredCalls(project) :
            e.call.callee # None =>
                e.call.ty = FunAt(project, Unwrap(e.call.callee)).return_type

\* C5: once the first method or function body of the file has been checked,
\* nothing more is appended to project.funs or project.structs.
C5_IdsAllocatedBeforeBodies ==
    bodies_checked > 0 =>
        /\ Len(project.funs) = funs_at_first_body
        /\ Len(project.structs) = project_struct_len + Len(parsed_file.structs)

\* C6: after typecheck_file, every method parameter named this has the type
\* of the enclosing record, and every other method parameter whose declared
\* type names a record of the file has the type of a record of that name.
C6_MethodParamsResolved ==
    Returned =>
        \A i \in DOMAIN parsed_file.structs :
        \A j \in DOMAIN parsed_file.structs[i].methods :
        \A q \in DOMAIN parsed_file.structs[i].methods[j].params :
            With(parsed_file.structs[i].methods[j].params[q].variable, LAMBDA declared :
            With(FunAt(project, MethodsBefore(parsed_file, i) + j - 1).params[q].variable.ty,
                 LAMBDA checked :
                IF declared.name = "this"
                THEN checked = StructTy(project_struct_len + i - 1)
                ELSE /\ declared.ty.k = "Name"
                     /\ RecordsNamed(parsed_file, declared.ty.name) # {}
                     => \E r \in RecordsNamed(parsed_file, declared.ty.name) :
                            checked = StructTy(project_struct_len + r - 1)))

\* C7: if typecheck_file returns no error, no checked expression stored in a
\* body of the project has type Unknown.
C7_NoUnknownOnSuccess ==
    Returned /\ output = None =>
        \A e \in StoredExprs(project) : ty_of(e) # Unknown

\* C8: a call, other than println / eprintln, for which no callee was
\* resolved returned an error and its CheckedCall has type Unknown.
C8_UnresolvedCallReported ==
    \A e \in StoredCalls(project) :
        e.call.callee = None => e.call.err # None /\ e.call.ty = Unknown

\* C9 as stated: every CheckedCall with a resolved callee has as many checked
\* arguments as the callee has parameters (one fewer for a method call).
C9_ArgsMatchParams ==
    \A e \in StoredCalls(project) :
        e.call.callee # None =>
            Len(e.call.args) = Supplied(e, FunAt(project, Unwrap(e.call.callee)))

\* C9, amended: every CheckedCall with a resolved callee either has as many
\* checked arguments as the callee has parameters (one fewer for a method
\* call), or has none and its check returned "wrong number of arguments".
C9_ArgsMatchParamsOrArityError ==
    \A e \in StoredCalls(project) :
        e.call.callee # None =>
            \/ Len(e.call.args) = Supplied(e, FunAt(project, Unwrap(e.call.callee)))
            \/ /\ Len(e.call.args) = 0
               /\ e.call.err = TypecheckError("wrong number of arguments")

\* a returned run that stored a free call and a method call with checked
\* arguments, and a call rejected for its argument count
C9_Witness ==
    /\ Returned
    /\ \E e \in StoredCalls(project) :
          e.k = "Call" /\ e.call.callee # None /\ Len(e.call.args) > 0
    /\ \E e \in StoredCalls(project) :
          e.k = "MethodCall" /\ e.call.callee # None /\ Len(e.call.args) > 0
    /\ \E e \in StoredCalls(project) :
          /\ e.call.callee # None
          /\ e.call.err = TypecheckError("wrong number of arguments")

-----------------------------------------------------------------------------
(* The specifications of single functions share the variables: input holds  *)
(* the arguments, output the result, project the Project the function is    *)
(* given; the locals of typecheck_file stay at rest.                        *)

locals == <<parsed_file, scope_id, idx, midx, error, project_struct_len,
            bodies_checked, funs_at_first_body, first_error>>

AtRest ==
    /\ parsed_file = [structs |-> <<>>, funs |-> <<>>]
    /\ scope_id = 0
    /\ idx = 0
    /\ midx = 0
    /\ error = None
    /\ project_struct_len = 0
    /\ bodies_checked = 0
    /\ funs_at_first_body = 0
    /\ first_error = None

-----------------------------------------------------------------------------
(* typecheck_unary_operation *)

MaxTypeDepth == 1     \* nesting of RawPtr / Optional in the operand's type

BaseTypes == {Ty("I32"), Ty("U8"), Ty("F64"), Ty("Bool"), Unknown}

RECURSIVE TypesTo(_)
TypesTo(d) ==
    IF d = 0 THEN BaseTypes
    ELSE TypesTo(d - 1) \cup {RawPtr(t) : t \in TypesTo(d - 1)}
                        \cup {Optional(t) : t \in TypesTo(d - 1)}

UnaryOperators ==
    {[k |-> tag] : tag \in {"Dereference", "RawAddress", "LogicalNot", "BitwiseNot",
                            "Negate", "PostDecrement", "PostIncrement",
                            "PreDecrement", "PreIncrement"}}
    \cup {[k |-> "TypeCast", ty |-> Name("i8")], [k |-> "TypeCast", ty |-> Name("Nope")]}

SafetyModes == {"Safe", "Unsafe"}

\* the operand: a variable of each type, mutable or not
Operands ==
    {[k |-> "Var", var |-> CheckedVariable("v", t, m)] :
        t \in TypesTo(MaxTypeDepth), m \in BOOLEAN}

InitUnary ==
    /\ input \in [expr : Operands, op : UnaryOperators, safety_mode : SafetyModes]
    /\ output = None
    /\ pc = "unary"
    /\ project = NewProject
    /\ AtRest

UnaryOperation ==
    /\ pc = "unary"
    /\ output' = typecheck_unary_operation(input.expr, input.op, 0, project,
                                           input.safety_mode)
    /\ pc' = "unary_done"
    /\ UNCHANGED <<project, input, locals>>

NextUnary == UnaryOperation

SpecUnary == InitUnary /\ [][NextUnary]_vars

UnsafeDereference ==
    TypecheckError("dereference of raw pointer outside of unsafe block")

\* C1: a Dereference of an operand of type RawPtr(T) returns the error
\* "dereference of raw pointer outside of unsafe block" if and only if the
\* safety mode is Safe, and the node has type T in both modes; for any other
\* operand the node has type Unknown and the error is "dereference of a
\* non-pointer value" in both modes.
C1_Dereference ==
    pc = "unary_done" /\ input.op.k = "Dereference" =>
        IF ty_of(input.expr).k = "RawPtr"
        THEN /\ output[2] = UnsafeDereference <=> input.safety_mode = "Safe"
             /\ output[1].k = "UnaryOp"
             /\ output[1].expr = input.expr
             /\ output[1].ty = ty_of(input.expr).of
        ELSE /\ output[2] = TypecheckError("dereference of a non-pointer value")
             /\ output[1].k = "UnaryOp"
             /\ output[1].ty = Unknown

\* a pointer to an i32 dereferenced in safe mode: the error is returned and
\* the node has the pointee's type
C1_Witness ==
    /\ pc = "unary_done"
    /\ input.op.k = "Dereference"
    /\ input.safety_mode = "Safe"
    /\ ty_of(input.expr) = RawPtr(Ty("I32"))
    /\ output[2] = UnsafeDereference
    /\ ty_of(output[1]) = Ty("I32")

-----------------------------------------------------------------------------
(* IntegerConstant::promote *)

MathBytes == 9        \* bytes that hold every i64 and every u64 with its sign

EdgeBytes == {0, 1, 127, 128, 255}

\* the 64-bit patterns that are `low` below byte p, `at` at byte p and `high`
\* above it: every bound of every integer type, and its neighbours
EdgePatterns ==
    {[i \in 1..8 |-> IF i < p THEN low ELSE IF i = p THEN at ELSE high] :
        p \in 1..8, low \in {0, 255}, at \in EdgeBytes, high \in {0, 255}}

IntegerConstants ==
    {Signed(bits) : bits \in EdgePatterns} \cup {Unsigned(bits) : bits \in EdgePatterns}

PromoteTypes ==
    {Ty(tag) : tag \in IntegerTags \cup {"F32", "Bool", "String", "Unknown"}}

InitPromote ==
    /\ input \in [value : IntegerConstants, ty : PromoteTypes]
    /\ output = None
    /\ pc = "promote"
    /\ project = NewProject
    /\ AtRest

Promote ==
    /\ pc = "promote"
    /\ output' = promote(input.value, input.ty)
    /\ pc' = "promote_done"
    /\ UNCHANGED <<project, input, locals>>

NextPromote == Promote

SpecPromote == InitPromote /\ [][NextPromote]_vars

\* the mathematical value of an IntegerConstant / of a NumericConstant, in
\* two's complement on MathBytes bytes
MathOf(value) ==
    IF value.kind = "Signed" THEN SignExtend(value.bits, MathBytes)
    ELSE ZeroExtend(value.bits, MathBytes)

MathOfConstant(c) ==
    IF c.tag \in SignedTags THEN SignExtend(c.bits, MathBytes)
    ELSE ZeroExtend(c.bits, MathBytes)

\* T.min and T.max as mathematical values
MinOf(tag) ==
    IF tag \in SignedTags THEN SignExtend(SignedMin(WidthOf(tag)), MathBytes)
    ELSE Fill(MathBytes, 0)

MaxOf(tag) ==
    IF tag \in SignedTags THEN SignExtend(SignedMax(WidthOf(tag)), MathBytes)
    ELSE ZeroExtend(UnsignedMax(WidthOf(tag)), MathBytes)

InRange(m, tag) == SLe(MinOf(tag), m) /\ SLe(m, MaxOf(tag))

\* C2: for an integer type T, promote(c, T) returns Some(c') if and only if
\* the mathematical value of c lies in [T.min, T.max]; then c' carries the
\* width tag of T, the returned type is T and c' has the mathematical value
\* of c; otherwise it returns (None, Unknown).
C2_PromoteValuePreserving ==
    pc = "promote_done" /\ is_integer(input.ty) =>
        IF InRange(MathOf(input.value), input.ty.k)
        THEN /\ output[1] # None
             /\ Unwrap(output[1]).tag = input.ty.k
             /\ Len(Unwrap(output[1]).bits) = WidthOf(input.ty.k)
             /\ output[2] = input.ty
             /\ MathOfConstant(Unwrap(output[1])) = MathOf(input.value)
        ELSE output = <<None, Unknown>>

\* u32::MAX as a signed constant promoted to u32, and refused by i32
C2_Witness ==
    /\ pc = "promote_done"
    /\ input.value = Signed(<<255, 255, 255, 255, 0, 0, 0, 0>>)
    /\ \/ /\ input.ty = Ty("U32")
          /\ output = <<Some(NumericConstant("U32", <<255, 255, 255, 255>>)), Ty("U32")>>
       \/ /\ input.ty = Ty("I32")
          /\ output = <<None, Unknown>>

-----------------------------------------------------------------------------
(* Project::create_scope and the add_*_to_scope operations *)

MaxScopes == 2        \* scopes of the project, the global one included
MaxBindings == 3      \* bindings held by the scopes of the project

ScopeNames == {"a", "b"}
ScopeIds(p) == 0 .. Len(p.scopes) - 1

RECURSIVE BindingsFrom(_, _)
BindingsFrom(p, sid) ==
    IF sid = Len(p.scopes) THEN 0
    ELSE Len(ScopeAt(p, sid).vars) + Len(ScopeAt(p, sid).structs)
         + Len(ScopeAt(p, sid).funs) + BindingsFrom(p, sid + 1)

InitScope ==
    /\ project = NewProject
    /\ input = [op |-> "new"]
    /\ output = None
    /\ pc = "scope"
    /\ AtRest

CreateScope ==
    /\ pc = "scope"
    /\ Len(project.scopes) < MaxScopes
    /\ \E parent_id \in ScopeIds(project) :
          /\ project' = create_scope(project, parent_id)[1]
          /\ output' = Some(create_scope(project, parent_id)[2])
          /\ input' = [op |-> "create_scope", parent_id |-> parent_id]
    /\ UNCHANGED <<pc, locals>>

AddVar ==
    /\ pc = "scope"
    /\ BindingsFrom(project, 0) < MaxBindings
    /\ \E sid \in ScopeIds(project), name \in ScopeNames :
       \E r \in {add_var_to_scope(project, sid,
                                  CheckedVariable(name, Ty("I32"), FALSE))} :
          /\ project' = r.project
          /\ output' = r.err
          /\ input' = [op |-> "add", kind |-> "vars", scope_id |-> sid, name |-> name,
                       entry |-> CheckedVariable(name, Ty("I32"), FALSE)]
    /\ UNCHANGED <<pc, locals>>

AddStruct ==
    /\ pc = "scope"
    /\ BindingsFrom(project, 0) < MaxBindings
    /\ \E sid \in ScopeIds(project), name \in ScopeNames, struct_id \in 0..1 :
       \E r \in {add_struct_to_scope(project, sid, name, struct_id)} :
          /\ project' = r.project
          /\ output' = r.err
          /\ input' = [op |-> "add", kind |-> "structs", scope_id |-> sid,
                       name |-> name, entry |-> <<name, struct_id>>]
    /\ UNCHANGED <<pc, locals>>

AddFunction ==
    /\ pc = "scope"
    /\ BindingsFrom(project, 0) < MaxBindings
    /\ \E sid \in ScopeIds(project), name \in ScopeNames, function_id \in 0..1 :
       \E r \in {add_function_to_scope(project, sid, name, function_id)} :
          /\ project' = r.project
          /\ output' = r.err
          /\ input' = [op |-> "add", kind |-> "funs", scope_id |-> sid,
                       name |-> name, entry |-> <<name, function_id>>]
    /\ UNCHANGED <<pc, locals>>

NextScope == CreateScope \/ AddVar \/ AddStruct \/ AddFunction

SpecScope == InitScope /\ [][NextScope]_vars

\* the names bound by a scope's list of one kind
NamesOf(scope, kind) ==
    IF kind = "vars" THEN {scope.vars[i].name : i \in DOMAIN scope.vars}
    ELSE {scope[kind][i][1] : i \in DOMAIN scope[kind]}

Kinds == {"vars", "structs", "funs"}

\* C10: an add_*_to_scope operation returns "redefinition of <name>" exactly
\* when the target scope itself holds a binding of that kind and name, and
\* then leaves the project unchanged; otherwise, whatever the ancestors and
\* the other kinds bind, it returns no error, appends the binding at the end
\* of the scope's list of that kind and changes nothing else.
C10_Redefinition ==
    [][ input'.op = "add" =>
          IF input'.name \in NamesOf(ScopeAt(project, input'.scope_id), input'.kind)
          THEN /\ output' = Redefinition(input'.name)
               /\ project' = project
          ELSE /\ output' = None
               /\ ScopeAt(project', input'.scope_id)[input'.kind]
                    = Append(ScopeAt(project, input'.scope_id)[input'.kind], input'.entry)
               /\ project'.funs = project.funs
               /\ project'.structs = project.structs
               /\ Len(project'.scopes) = Len(project.scopes)
               /\ \A sid \in ScopeIds(project) :
                    /\ ScopeAt(project', sid).parent = ScopeAt(project, sid).parent
                    /\ \A kind \in Kinds :
                          sid # input'.scope_id \/ kind # input'.kind
                          => ScopeAt(project', sid)[kind] = ScopeAt(project, sid)[kind]
      ]_vars

\* a variable added without error to a scope whose parent binds a variable
\* of that name and which itself binds a function of that name
C10_Witness ==
    /\ pc = "scope"
    /\ input.op = "add"
    /\ input.kind = "vars"
    /\ output = None
    /\ ScopeAt(project, input.scope_id).parent # None
    /\ input.name \in NamesOf(ScopeAt(project,
                                Unwrap(ScopeAt(project, input.scope_id).parent)), "vars")
    /\ input.name \in NamesOf(ScopeAt(project, input.scope_id), "funs")
    /\ ScopeAt(project, input.scope_id).vars[Len(ScopeAt(project, input.scope_id).vars)]
          = input.entry

-----------------------------------------------------------------------------
(* typecheck_file as one call, and a project that lives through several     *)
(* calls: scopes are created, bindings are added and files are checked one  *)
(* after the other on the same Project.                                     *)

\* the result r of one pass folded into acc = [project, err, panic]
Pass(acc, r) ==
    [project |-> r.project, err |-> Or(acc.err, r.err), panic |-> r.panic]

\* the same for the passes that cannot panic
PassOk(acc, r) ==
    [project |-> r.project, err |-> Or(acc.err, r.err), panic |-> FALSE]

\* line 513: the error of typecheck_struct_predecl is not kept
PassDropped(acc, r) == [project |-> r.project, err |-> acc.err, panic |-> FALSE]

RECURSIVE StructPredeclLoop(_, _, _, _, _)
StructPredeclLoop(file, i, sid, struct_len, acc) ==
    IF i > Len(file.structs) THEN acc
    ELSE StructPredeclLoop(file, i + 1, sid, struct_len,
            PassDropped(acc, typecheck_struct_predecl(file.structs[i], i - 1 + struct_len,
                                                      sid, acc.project)))

RECURSIVE FunPredeclLoop(_, _, _, _)
FunPredeclLoop(file, i, sid, acc) ==
    IF i > Len(file.funs) THEN acc
    ELSE FunPredeclLoop(file, i + 1, sid,
            PassOk(acc, typecheck_fun_predecl(file.funs[i], sid, acc.project)))

RECURSIVE MethodLoop(_, _, _, _)
\* the method loop of typecheck_struct
MethodLoop(structure, j, struct_id, acc) ==
    IF j > Len(structure.methods) \/ acc.panic THEN acc
    ELSE MethodLoop(structure, j + 1, struct_id,
            Pass(acc, typecheck_method(structure.methods[j],
                                       StructAt(acc.project, struct_id).scope_id,
                                       acc.project, struct_id)))

\* typecheck_struct: [project, err, panic]
typecheck_struct(structure, struct_id, parent_scope_id, p) ==
    MethodLoop(structure, 1, struct_id,
        PassOk([project |-> p, err |-> None, panic |-> FALSE],
               typecheck_struct_members(structure, struct_id, parent_scope_id, p)))

RECURSIVE StructLoop(_, _, _, _, _)
StructLoop(file, i, sid, struct_len, acc) ==
    IF i > Len(file.structs) \/ acc.panic THEN acc
    ELSE StructLoop(file, i + 1, sid, struct_len,
            Pass(acc, typecheck_struct(file.structs[i], i - 1 + struct_len, sid,
                                       acc.project)))

RECURSIVE FunLoop(_, _, _, _)
FunLoop(file, i, sid, acc) ==
    IF i > Len(file.funs) \/ acc.panic THEN acc
    ELSE FunLoop(file, i + 1, sid,
            Pass(acc, typecheck_fun(file.funs[i], sid, acc.project)))

\* typecheck_file: [project, err, panic]
typecheck_file(file, sid, p) ==
    FunLoop(file, 1, sid,
        StructLoop(file, 1, sid, Len(p.structs),
            FunPredeclLoop(file, 1, sid,
                StructPredeclLoop(file, 1, sid, Len(p.structs),
                    [project |-> p, err |-> None, panic |-> FALSE]))))

MaxRunDecls == 1      \* declarations per file checked on a living project
MaxRuns == 2          \* typecheck_file calls on one project

InitProject ==
    /\ project = NewProject
    /\ input = [op |-> "new"]
    /\ output = None
    /\ pc = "project"
    /\ AtRest    \* idx counts the typecheck_file calls made so far

\* Project::create_scope, as a caller makes a file scope or a nested scope
NewFileScope ==
    /\ pc = "project"
    /\ Len(project.scopes) < MaxScopes
    /\ \E parent_id \in ScopeIds(project) :
          /\ project' = create_scope(project, parent_id)[1]
          /\ output' = Some(create_scope(project, parent_id)[2])
          /\ input' = [op |-> "create_scope", parent_id |-> parent_id]
    /\ UNCHANGED <<pc, locals>>

\* Project::add_var_to_scope called on a living project
BindVar ==
    /\ pc = "project"
    /\ \E sid \in ScopeIds(project) \cap (0 .. MaxScopes - 1) :
       \E r \in {add_var_to_scope(project, sid, CheckedVariable("a", Ty("I32"), FALSE))} :
          /\ project' = r.project
          /\ output' = r.err
          /\ input' = [op |-> "add", kind |-> "vars", scope_id |-> sid, name |-> "a"]
    /\ UNCHANGED <<pc, locals>>

\* Project::add_struct_to_scope, for a record the project holds
BindStruct ==
    /\ pc = "project"
    /\ project.structs # <<>>
    /\ \E sid \in ScopeIds(project) \cap (0 .. MaxScopes - 1), struct_id \in {0} :
       \E r \in {add_struct_to_scope(project, sid, "A", struct_id)} :
          /\ project' = r.project
          /\ output' = r.err
          /\ input' = [op |-> "add", kind |-> "structs", scope_id |-> sid, name |-> "A"]
    /\ UNCHANGED <<pc, locals>>

\* Project::add_function_to_scope, for a function the project holds
BindFunction ==
    /\ pc = "project"
    /\ project.funs # <<>>
    /\ \E sid \in ScopeIds(project) \cap (0 .. MaxScopes - 1), function_id \in {0} :
       \E r \in {add_function_to_scope(project, sid, "f", function_id)} :
          /\ project' = r.project
          /\ output' = r.err
          /\ input' = [op |-> "add", kind |-> "funs", scope_id |-> sid, name |-> "f"]
    /\ UNCHANGED <<pc, locals>>

\* one typecheck_file call on an existing scope id
CheckFile ==
    /\ pc = "project"
    /\ idx < MaxRuns
    /\ \E file \in FilesOf(MaxRunDecls), sid \in ScopeIds(project) \cap (0 .. MaxScopes - 1) :
       \E r \in {typecheck_file(file, sid, project)} :
          /\ project' = r.project
          /\ output' = r.err
          /\ input' = [op |-> "typecheck_file", file |-> file, scope_id |-> sid,
                       struct_len |-> Len(project.structs),
                       fun_len |-> Len(project.funs)]
          /\ pc' = IF r.panic THEN "panic" ELSE pc
    /\ idx' = idx + 1
    /\ UNCHANGED <<parsed_file, scope_id, midx, error, project_struct_len,
                   bodies_checked, funs_at_first_body, first_error>>

NextProject == NewFileScope \/ BindVar \/ BindStruct \/ BindFunction \/ CheckFile

SpecProject == InitProject /\ [][NextProject]_vars

\* C11: in every state of a project reached by scope creations, add_*_to_scope
\* calls and typecheck_file runs, no scope holds two variables of one name, two
\* record bindings of one name or two function bindings of one name.
C11_NamesUniquePerScope ==
    \A sid \in ScopeIds(project) : \A kind \in Kinds :
        Cardinality(NamesOf(ScopeAt(project, sid), kind))
            = Len(ScopeAt(project, sid)[kind])

\* a second file that declares f again has been checked on the scope where the
\* first file bound f: the add was refused and the scope still holds one f
C11_Witness ==
    /\ input.op = "typecheck_file"
    /\ input.fun_len > 0
    /\ output = Redefinition("f")
    /\ \E i \in DOMAIN ScopeAt(project, input.scope_id).funs :
          ScopeAt(project, input.scope_id).funs[i][1] = "f"

\* C12: in every state of a project reached from Project::new by scope
\* creations and typecheck_file runs on existing scope ids, scope 0 has no
\* parent and the parent of every other scope is a strictly smaller index, so
\* that a walk along the parents reaches scope 0 in at most as many steps as
\* the index it starts from.
C12_ParentsAreSmaller ==
    /\ ScopeAt(project, 0).parent = None
    /\ \A sid \in ScopeIds(project) \ {0} :
          /\ ScopeAt(project, sid).parent # None
          /\ Unwrap(ScopeAt(project, sid).parent) \in 0 .. sid - 1

\* a file has been checked on scope 1 and left a scope whose parent is neither
\* the global scope nor the scope created just before it
C12_Witness ==
    /\ input.op = "typecheck_file"
    /\ input.scope_id = 1
    /\ \E sid \in ScopeIds(project) :
          /\ ScopeAt(project, sid).parent # None
          /\ Unwrap(ScopeAt(project, sid).parent) \notin {0, sid - 1}

\* C13: in every step of typecheck_file the scope, function and record tables
\* do not shrink and every entry they held stays at its index: a function
\* changes at most in block and return_type (name and params stay), a record at
\* most in fields (name and scope_id stay), a scope at most in its three
\* binding lists (parent stays).
C13_EntriesStayInPlace ==
    [][ /\ Len(project'.scopes) >= Len(project.scopes)
        /\ Len(project'.funs) >= Len(project.funs)
        /\ Len(project'.structs) >= Len(project.structs)
        /\ \A i \in DOMAIN project.funs :
              /\ project'.funs[i].name = project.funs[i].name
              /\ project'.funs[i].params = project.funs[i].params
              /\ [project'.funs[i] EXCEPT !.block = project.funs[i].block,
                                          !.return_type = project.funs[i].return_type]
                    = project.funs[i]
        /\ \A i \in DOMAIN project.structs :
              /\ project'.structs[i].name = project.structs[i].name
              /\ project'.structs[i].scope_id = project.structs[i].scope_id
              /\ [project'.structs[i] EXCEPT !.fields = project.structs[i].fields]
                    = project.structs[i]
        /\ \A i \in DOMAIN project.scopes :
              /\ project'.scopes[i].parent = project.scopes[i].parent
              /\ [project'.scopes[i] EXCEPT !.vars = project.scopes[i].vars,
                                            !.structs = project.scopes[i].structs,
                                            !.funs = project.scopes[i].funs]
                    = project.scopes[i]
      ]_vars

\* typecheck_file has returned after storing a body in a function that has
\* parameters and the fields of a record, with the constructor appended
C13_Witness ==
    /\ pc = "done"
    /\ \E i \in DOMAIN project.funs :
          /\ project.funs[i].params # <<>>
          /\ project.funs[i].block.stmts # <<>>
    /\ \E j \in DOMAIN project.structs : project.structs[j].fields # <<>>
    /\ \E i \in DOMAIN project.funs : project.funs[i].linkage = "ImplicitConstructor"

-----------------------------------------------------------------------------
(* A second typecheck_file call, pass by pass, on the project and the scope *)
(* an earlier call has left.                                                *)

\* the file checked first and the project it left; input keeps the file
InitSecond ==
    /\ \E first \in FilesOf(MaxRunDecls) :
       \E r \in {typecheck_file(first, 0, NewProject)} :
          /\ ~r.panic
          /\ project = r.project
          /\ input = Some(first)
    /\ parsed_file \in FilesOf(MaxRunDecls + 1)
    /\ scope_id = 0
    /\ pc = At(parsed_file, "struct_predecl", 0)[1]
    /\ idx = 0
    /\ midx = 0
    /\ error = None
    /\ project_struct_len = Len(project.structs)
    /\ bodies_checked = 0
    /\ funs_at_first_body = 0
    /\ first_error = None
    /\ output = None

SpecSecond == InitSecond /\ [][Next]_vars

\* the record ids a type mentions
RECURSIVE StructIdsIn(_)
StructIdsIn(ty) ==
    CASE ty.k = "Struct" -> {ty.id}
      [] ty.k \in {"Vector", "Optional", "RawPtr"} -> StructIdsIn(ty.of)
      [] ty.k = "Tuple" -> UNION {StructIdsIn(t) : t \in Range(ty.ts)}
      [] OTHER -> {}

\* the types a project stores: parameter types, return types, field types,
\* the types of the variables bound in scopes and of the checked expressions
StoredTypes(p) ==
    UNION {{param.variable.ty : param \in Range(fun.params)} : fun \in Range(p.funs)}
    \cup {fun.return_type : fun \in Range(p.funs)}
    \cup UNION {{field.ty : field \in Range(s.fields)} : s \in Range(p.structs)}
    \cup UNION {{var.ty : var \in Range(scope.vars)} : scope \in Range(p.scopes)}
    \cup {ty_of(e) : e \in StoredExprs(p)}

\* C14: when typecheck_file returns, every record id in a stored parameter,
\* field, return, variable or expression type and every record id bound in a
\* scope is below structs.len(), every function id bound in a scope is below
\* funs.len(), and record i of the file (from 0) is the entry of project.structs
\* at index i plus the number of records the project held before the call.
C14_IdsInRange ==
    Returned =>
        /\ \A ty \in StoredTypes(project) :
              \A id \in StructIdsIn(ty) : id \in 0 .. Len(project.structs) - 1
        /\ \A scope \in Range(project.scopes) :
              /\ \A b \in Range(scope.structs) : b[2] \in 0 .. Len(project.structs) - 1
              /\ \A b \in Range(scope.funs) : b[2] \in 0 .. Len(project.funs) - 1
        /\ \A i \in DOMAIN parsed_file.structs :
              /\ project_struct_len + i <= Len(project.structs)
              /\ project.structs[project_struct_len + i].name = parsed_file.structs[i].name

\* the second file of a project has two records, stored after the record of
\* the first file, and a body of the project mentions the second of them
C14_Witness ==
    /\ Returned
    /\ project_struct_len > 0
    /\ Len(parsed_file.structs) = 2
    /\ \E ty \in StoredTypes(project) : project_struct_len + 1 \in StructIdsIn(ty)

-----------------------------------------------------------------------------
(* Declarations of one name *)

\* the declarations of a list whose name no earlier one of the list has
RECURSIVE FirstDeclarations(_, _)
FirstDeclarations(decls, seen) ==
    IF decls = <<>> THEN <<>>
    ELSE IF Head(decls).name \in seen THEN FirstDeclarations(Tail(decls), seen)
    ELSE <<Head(decls)>> \o FirstDeclarations(Tail(decls), seen \cup {Head(decls).name})

\* a file without the later declarations of a function or method name
FirstOnly(file) ==
    [structs |-> [k \in DOMAIN file.structs |->
                    [file.structs[k] EXCEPT !.methods = FirstDeclarations(@, {})]],
     funs |-> FirstDeclarations(file.funs, {})]

\* the project typecheck_file was called on
Entry == IF scope_id = 0 THEN NewProject ELSE create_scope(NewProject, 0)[1]

\* the positions of the declarations that repeat the name of an earlier one
Repeated(decls) ==
    {j \in DOMAIN decls : \E i \in 1 .. j - 1 : decls[i].name = decls[j].name}

\* the position of the first declaration of that name
FirstOf(decls, name) == LeastOf({i \in DOMAIN decls : decls[i].name = name})

\* functions a and b agree in parameters, checked body and return type
SameFunction(a, b) ==
    /\ a.params = b.params
    /\ a.block = b.block
    /\ a.return_type = b.return_type

\* the name is bound in scope sid to the function with that id, and the entry
\* is the one the file without the later declarations gives that name
FirstWriterWins(sid, name, id, expected) ==
    /\ FirstBinding(ScopeAt(project, sid).funs, name) = Some(id)
    /\ SameFunction(FunAt(project, id),
                    FunAt(expected, Unwrap(FirstBinding(ScopeAt(expected, sid).funs, name))))

\* C15: when a file declares two free functions of one name, or a record two
\* methods of one name, typecheck_file returns an error, the name stays bound
\* to the function id of the first declaration, and at return the entry of
\* project.funs at that id holds the parameters, the checked body and the
\* return type of the first declaration.
C15_FirstDeclarationWins ==
    Returned =>
        \E expected \in {typecheck_file(FirstOnly(parsed_file), scope_id, Entry).project} :
            /\ \A j \in Repeated(parsed_file.funs) :
                  /\ output # None
                  /\ FirstWriterWins(scope_id, parsed_file.funs[j].name,
                        MethodsBefore(parsed_file, Len(parsed_file.structs) + 1)
                            + FirstOf(parsed_file.funs, parsed_file.funs[j].name) - 1,
                        expected)
            /\ \A k \in DOMAIN parsed_file.structs :
               \A j \in Repeated(parsed_file.structs[k].methods) :
                  /\ output # None
                  /\ FirstWriterWins(StructAt(project, k - 1).scope_id,
                        parsed_file.structs[k].methods[j].name,
                        MethodsBefore(parsed_file, k)
                            + FirstOf(parsed_file.structs[k].methods,
                                      parsed_file.structs[k].methods[j].name) - 1,
                        expected)

-----------------------------------------------------------------------------
(* typecheck_file on files of records: fields, implicit constructors, the   *)
(* functions that share a record's name, and bodies of several statements   *)

RecordTemplates ==
    { \* struct P { x: i32  mutable y: bool  fn first(this) -> i32 { return this.x } }
      Record("P", <<Field("x", Name("i32")),
                    [name |-> "y", ty |-> Name("bool"), mutable |-> TRUE]>>,
             << Fn("first", <<This>>, Name("i32"),
                   <<ReturnS([k |-> "IndexedStruct", expr |-> VarE("this"), name |-> "x"])>>) >>),
      \* struct P { }
      Record("P", <<>>, <<>>),
      \* struct D { v: i32  fn D(this) { } }
      Record("D", <<Field("v", Name("i32"))>>, << Fn("D", <<This>>, Empty, <<>>) >>),
      \* struct Q { p: P  fn make() -> P { return P(x: 1, y: true) } }
      Record("Q", <<Field("p", Name("P"))>>,
             << Fn("make", <<>>, Name("P"),
                   <<ReturnS(CallE(<<>>, "P", << <<"x", Lit(1)>>,
                                                <<"y", [k |-> "Boolean", b |-> TRUE]>> >>))>>) >>) }

RecordFunTemplates ==
    { \* fn P() { }
      Fn("P", <<>>, Empty, <<>>),
      \* fn q() { P(x: 1, y: true)  D(v: 2) }
      Fn("q", <<>>, Empty,
         << ExprS(CallE(<<>>, "P", << <<"x", Lit(1)>>,
                                     <<"y", [k |-> "Boolean", b |-> TRUE]>> >>)),
            ExprS(CallE(<<>>, "D", << <<"v", Lit(2)>> >>)) >>),
      \* fn r() { return true  return 1 }
      Fn("r", <<>>, Empty, <<ReturnS([k |-> "Boolean", b |-> TRUE]), ReturnS(Lit(1))>>),
      \* fn s() { let z = 1  return z }
      Fn("s", <<>>, Empty, <<LetS("z", Empty, Lit(1)), ReturnS(VarE("z"))>>),
      \* fn t() -> Nope { return true }
      Fn("t", <<>>, Name("Nope"), <<ReturnS([k |-> "Boolean", b |-> TRUE])>>) }

InitRecord ==
    /\ parsed_file \in FilesFrom(RecordTemplates, RecordFunTemplates, MaxDecls)
    /\ \E entry \in Entries : project = entry[1] /\ scope_id = entry[2]
    /\ pc = At(parsed_file, "struct_predecl", 0)[1]
    /\ idx = 0
    /\ midx = 0
    /\ error = None
    /\ project_struct_len = Len(project.structs)
    /\ bodies_checked = 0
    /\ funs_at_first_body = 0
    /\ first_error = None
    /\ input = None
    /\ output = None

SpecRecord == InitRecord /\ [][Next]_vars

\* the ids of the implicit constructors of record struct_id
ConstructorsOf(struct_id) ==
    {c \in 0 .. Len(project.funs) - 1 :
        /\ FunAt(project, c).linkage = "ImplicitConstructor"
        /\ FunAt(project, c).return_type = StructTy(struct_id)}

\* function c is the implicit constructor of record k of the file: the
\* record's name, an empty block, and one labelled parameter per field, in
\* order, with the field's name, checked type and mutability
IsConstructorOf(c, k) ==
    /\ FunAt(project, c).name = parsed_file.structs[k].name
    /\ FunAt(project, c).block = NewCheckedBlock
    /\ Len(FunAt(project, c).params) = Len(parsed_file.structs[k].fields)
    /\ \A i \in DOMAIN parsed_file.structs[k].fields :
          /\ StructAt(project, project_struct_len + k - 1).fields[i].name
                = parsed_file.structs[k].fields[i].name
          /\ FunAt(project, c).params[i]
                = CheckedParameter(TRUE,
                    CheckedVariable(parsed_file.structs[k].fields[i].name,
                        StructAt(project, project_struct_len + k - 1).fields[i].ty,
                        parsed_file.structs[k].fields[i].mutable))

\* no function of the file and no earlier record of the file has the name of
\* record k: nothing binds that name in the file scope before the constructor
NoOtherInFileScope(k) ==
    /\ \A f \in Range(parsed_file.funs) : f.name # parsed_file.structs[k].name
    /\ \A h \in 1 .. k - 1 : parsed_file.structs[h].name # parsed_file.structs[k].name

\* the same for the record's own scope: no method has the record's name
NoOtherInRecordScope(k) ==
    \A m \in Range(parsed_file.structs[k].methods) : m.name # parsed_file.structs[k].name

InRecordScope(c, k) ==
    FirstBinding(ScopeAt(project, StructAt(project, project_struct_len + k - 1).scope_id).funs,
                 parsed_file.structs[k].name) = Some(c)

InFileScope(c, k) ==
    find_function_in_scope(project, scope_id, parsed_file.structs[k].name) = Some(c)

\* C16 as stated: at return every record of the file has exactly one implicit
\* constructor in project.funs, of the record's name, with one labelled
\* parameter per field, return type Struct(id) and an empty block; it is bound
\* to the record's name in the record's own scope, and a lookup from the file
\* scope yields it when nothing else bound that name in the file scope before.
C16_ConstructorRegistered ==
    Returned =>
        \A k \in DOMAIN parsed_file.structs :
        \E c \in ConstructorsOf(project_struct_len + k - 1) :
            /\ ConstructorsOf(project_struct_len + k - 1) = {c}
            /\ IsConstructorOf(c, k)
            /\ InRecordScope(c, k)
            /\ NoOtherInFileScope(k) => InFileScope(c, k)

\* C16, amended: the same, with the binding in the record's own scope also
\* conditional: it is made when no method of the record has the record's name.
C16_ConstructorRegisteredUnlessBound ==
    Returned =>
        \A k \in DOMAIN parsed_file.structs :
        \E c \in ConstructorsOf(project_struct_len + k - 1) :
            /\ ConstructorsOf(project_struct_len + k - 1) = {c}
            /\ IsConstructorOf(c, k)
            /\ NoOtherInRecordScope(k) => InRecordScope(c, k)
            /\ NoOtherInFileScope(k) => InFileScope(c, k)

\* a record with two fields, one mutable, has its constructor bound in both
\* scopes, and a call from the file scope has resolved to it
C16_Witness ==
    /\ Returned
    /\ \E k \in DOMAIN parsed_file.structs :
       \E c \in ConstructorsOf(project_struct_len + k - 1) :
          /\ Len(FunAt(project, c).params) = 2
          /\ FunAt(project, c).params[2].variable.mutable
          /\ InRecordScope(c, k)
          /\ InFileScope(c, k)
          /\ \E e \in StoredCalls(project) : e.call.callee = Some(c)

-----------------------------------------------------------------------------
(* The return type typecheck_fun and typecheck_method store *)

\* the return type C17 states for a function stored as `stored` whose
\* declared return type resolved to `declared`
StatedReturnType(declared, stored) ==
    IF declared # Unknown THEN declared
    ELSE IF stored.block.stmts # <<>> /\ stored.block.stmts[1].k = "Return"
    THEN ty_of(stored.block.stmts[1].expr)
    ELSE Ty("Void")

\* the function typecheck_fun or typecheck_method writes in this step: the
\* one its name is bound to in scope sid
Written(sid, name) == Unwrap(find_function_in_scope(project, sid, name))

\* C17: the return_type typecheck_fun and typecheck_method store is the
\* declared type when that resolves to a type other than Unknown, else the
\* type of e when the first statement of the checked block is Return(e), else
\* Void.
C17_StoredReturnType ==
    [][ /\ (pc = "fun" /\ pc' # "panic") =>
              FunAt(project', Written(scope_id, parsed_file.funs[idx + 1].name)).return_type
                = StatedReturnType(
                    typecheck_typename(parsed_file.funs[idx + 1].return_type,
                                       scope_id, project')[1],
                    FunAt(project', Written(scope_id, parsed_file.funs[idx + 1].name)))
        /\ (pc = "method" /\ pc' # "panic") =>
              FunAt(project',
                    Written(StructAt(project, idx + project_struct_len).scope_id,
                            parsed_file.structs[idx + 1].methods[midx + 1].name)).return_type
                = StatedReturnType(
                    typecheck_typename(
                        parsed_file.structs[idx + 1].methods[midx + 1].return_type,
                        StructAt(project, idx + project_struct_len).scope_id, project')[1],
                    FunAt(project',
                          Written(StructAt(project, idx + project_struct_len).scope_id,
                                  parsed_file.structs[idx + 1].methods[midx + 1].name)))
      ]_vars

\* a file has been checked that stored a declared return type, the type of a
\* leading return statement that another return follows, and Void for a body
\* that ends with a return but does not start with one
C17_Witness ==
    /\ Returned
    /\ \E f \in Range(project.funs) :
          /\ f.return_type = Ty("Bool")
          /\ Len(f.block.stmts) = 2
          /\ f.block.stmts[1].k = "Return"
          /\ f.block.stmts[2].k = "Return"
    /\ \E f \in Range(project.funs) :
          f.return_type = Ty("I32") /\ f.linkage = "Internal"
    /\ \E f \in Range(project.funs) :
          /\ f.return_type = Ty("Void")
          /\ Len(f.block.stmts) = 2
          /\ f.block.stmts[2].k = "Return"

-----------------------------------------------------------------------------
(* println and eprintln *)

\* the statements of a parsed function that call println or eprintln
PrintStatements(fun) ==
    {i \in DOMAIN fun.block.stmts :
        /\ fun.block.stmts[i].k = "Expression"
        /\ fun.block.stmts[i].expr.k = "Call"
        /\ fun.block.stmts[i].expr.call.name \in {"println", "eprintln"}}

\* the checked call keeps every argument of the parsed call, in order, under
\* its label
ArgsRetained(call, checked) ==
    /\ Len(checked.args) = Len(call.args)
    /\ \A j \in DOMAIN call.args : checked.args[j][1] = call.args[j][1]

\* C18: a call of println or eprintln, with any number of arguments, zero
\* included, is checked to a CheckedCall of type Void that keeps every argument
\* in order.
C18_PrintlnIsVoid ==
    Returned =>
        \A fun \in Range(parsed_file.funs) : \A i \in PrintStatements(fun) :
            /\ FunAt(project, Written(scope_id, fun.name)).block.stmts[i].expr.call.ty
                  = Ty("Void")
            /\ ArgsRetained(fun.block.stmts[i].expr.call,
                  FunAt(project, Written(scope_id, fun.name)).block.stmts[i].expr.call)

-----------------------------------------------------------------------------
(* typecheck_block on blocks that declare and use variables *)

MaxStmts == 2      \* statements of the checked block; a nested block has one less

BlockStmtS(stmts) == [k |-> "Block", block |-> [stmts |-> stmts]]

\* let x = 1, let x = true, let x = x, let y = x, and the statement x
FlatStatements ==
    { LetS("x", Empty, Lit(1)),
      LetS("x", Empty, [k |-> "Boolean", b |-> TRUE]),
      LetS("x", Empty, VarE("x")),
      LetS("y", Empty, VarE("x")),
      ExprS(VarE("x")) }

\* the sequences of at most n elements of S
SeqsTo(S, n) == UNION {[1..m -> S] : m \in 0..n}

NestedBlocks == {BlockStmtS(stmts) : stmts \in SeqsTo(FlatStatements, MaxStmts - 1)}

Blocks == {[stmts |-> stmts] : stmts \in SeqsTo(FlatStatements \cup NestedBlocks, MaxStmts)}

\* the block of a function body: scope 0 is the scope above it, which binds
\* no variable or a mutable String x
InitBlock ==
    /\ project \in {NewProject,
                    add_var_to_scope(NewProject, 0,
                                     CheckedVariable("x", Ty("String"), TRUE)).project}
    /\ input \in Blocks
    /\ output = None
    /\ pc = "block"
    /\ AtRest

Block ==
    /\ pc = "block"
    /\ \E r \in {typecheck_block(input, 0, project, "Safe")} :
          /\ project' = r.project
          /\ output' = Some([block |-> r.block, err |-> r.err])
    /\ pc' = "block_done"
    /\ UNCHANGED <<input, locals>>

SpecBlock == InitBlock /\ [][Block]_vars

\* Lexical scoping, stated without scopes: an environment maps each name to
\* the variable visible under it, if any; `own` is the set of names the
\* current block has declared; refs collects, in order, what each variable
\* reference of the block resolves to.
BlockNames == {"x", "y"}

\* the environment above the block: the variables of scope 0
Outer == [name \in BlockNames |-> FirstVar(ScopeAt(project, 0).vars, name)]

\* the type of an initialiser under an environment
InitType(init, env) ==
    CASE init.k = "NumericConstant" -> Ty("I64")
      [] init.k = "Boolean" -> Ty("Bool")
      [] init.k = "Var" -> IF env[init.name] = None THEN Unknown
                           ELSE Unwrap(env[init.name]).ty

\* what the references of an expression add to refs
Refer(expr, env, refs) ==
    IF expr.k = "Var" THEN Append(refs, [name |-> expr.name, var |-> env[expr.name]])
    ELSE refs

RECURSIVE Lexical(_, _, _, _, _)
Lexical(stmts, i, env, own, refs) ==
    IF i > Len(stmts) THEN refs
    ELSE CASE stmts[i].k = "Expression" ->
                Lexical(stmts, i + 1, env, own, Refer(stmts[i].expr, env, refs))
           [] stmts[i].k = "Block" ->
                Lexical(stmts, i + 1, env, own,
                        Lexical(stmts[i].block.stmts, 1, env, {}, refs))
           [] stmts[i].k = "VarDecl" ->
                Lexical(stmts, i + 1,
                        IF stmts[i].var_decl.name \in own THEN env
                        ELSE [env EXCEPT ![stmts[i].var_decl.name] =
                                Some(CheckedVariable(stmts[i].var_decl.name,
                                                     InitType(stmts[i].init, env),
                                                     stmts[i].var_decl.mutable))],
                        own \cup {stmts[i].var_decl.name},
                        Refer(stmts[i].init, env, refs))

\* the variables the references of a checked block hold, in the same order
RECURSIVE CheckedRefs(_, _, _)
CheckedRefs(stmts, i, refs) ==
    IF i > Len(stmts) THEN refs
    ELSE CASE stmts[i].k = "Expression" ->
                CheckedRefs(stmts, i + 1,
                    IF stmts[i].expr.k = "Var" THEN Append(refs, stmts[i].expr.var) ELSE refs)
           [] stmts[i].k = "Block" ->
                CheckedRefs(stmts, i + 1, CheckedRefs(stmts[i].block.stmts, 1, refs))
           [] stmts[i].k = "VarDecl" ->
                CheckedRefs(stmts, i + 1,
                    IF stmts[i].init.k = "Var" THEN Append(refs, stmts[i].init.var) ELSE refs)

\* what typecheck_expression stores for a reference that resolves to r
StoredVar(name, r) == IF r = None THEN CheckedVariable(name, Unknown, FALSE) ELSE Unwrap(r)

\* C19: every variable reference of a checked block resolves as lexical
\* scoping says: to the nearest declaration among the earlier statements of
\* its own block, then of the enclosing blocks, then the scopes above; a
\* declaration is not visible after its block has ended, nor to its own
\* initialiser; a reference with no such declaration is not found.
C19_LexicalScoping ==
    pc = "block_done" =>
        \E expected \in {Lexical(input.stmts, 1, Outer, {}, <<>>)} :
        \E refs \in {CheckedRefs(Unwrap(output).block.stmts, 1, <<>>)} :
            /\ Len(refs) = Len(expected)
            /\ \A n \in DOMAIN expected :
                  refs[n] = StoredVar(expected[n].name, expected[n].var)
            /\ (\E n \in DOMAIN expected : expected[n].var = None)
                  => Unwrap(output).err # None
            /\ Unwrap(output).err = TypecheckError("variable not found")
                  => \E n \in DOMAIN expected : expected[n].var = None

\* a block has been checked whose nested block declares x and reads it, and
\* whose next statement reads x again and gets the String x of the scope above
C19_Witness ==
    /\ pc = "block_done"
    /\ Len(input.stmts) = 2
    /\ input.stmts[1] = BlockStmtS(<<LetS("x", Empty, [k |-> "Boolean", b |-> TRUE])>>)
    /\ input.stmts[2] = ExprS(VarE("x"))
    /\ Unwrap(output).block.stmts[2].expr.var = CheckedVariable("x", Ty("String"), TRUE)

-----------------------------------------------------------------------------
(* typecheck_call on a free function *)

MaxParams == 2     \* parameters of the callee, and arguments of the call

ParamNames == <<"n", "m", "k">>

\* the callees: i32 parameters n, m, ... that do or do not require a label
Callees ==
    UNION { { CheckedFunction("h", Ty("Void"),
                  [i \in 1..c |-> CheckedParameter(labels[i],
                                      CheckedVariable(ParamNames[i], Ty("I32"), FALSE))],
                  NewCheckedBlock, "Internal") :
              labels \in [1..c -> BOOLEAN] } :
            c \in 1..MaxParams }

\* an argument: a label, or none, and a variable, a number or a boolean
Arguments ==
    {"", "n", "m"} \X {VarE("n"), VarE("m"), Lit(1), [k |-> "Boolean", b |-> TRUE]}

\* the project after the predeclaration of the callee in scope 0, with the
\* i32 variables n and m bound in a scope below
ProjectCalling(callee) ==
    add_var_to_scope(
        add_var_to_scope(
            create_scope(
                add_function_to_scope([NewProject EXCEPT !.funs = <<callee>>],
                                      0, callee.name, 0).project,
                0)[1],
            1, CheckedVariable("n", Ty("I32"), FALSE)).project,
        1, CheckedVariable("m", Ty("I32"), FALSE)).project

InitCall ==
    /\ \E callee \in Callees : project = ProjectCalling(callee)
    /\ \E args \in SeqsTo(Arguments, MaxParams) :
          input = [namespace |-> <<>>, name |-> "h", args |-> args]
    /\ output = None
    /\ pc = "call"
    /\ AtRest

Call ==
    /\ pc = "call"
    /\ output' = Some(typecheck_call(input, 1, project, "Safe"))
    /\ pc' = "call_done"
    /\ UNCHANGED <<project, input, locals>>

SpecCall == InitCall /\ [][Call]_vars

\* the condition C20 states for argument i of the call in `input`
LabelRequired(i) ==
    /\ FunAt(project, 0).params[i].requires_label
    /\ input.args[i][1] # FunAt(project, 0).params[i].variable.name
    /\ ~(/\ input.args[i][2].k = "Var"
         /\ input.args[i][2].name = FunAt(project, 0).params[i].variable.name)

\* argument i has another type than the i32 parameter: an error of its own
Mismatched(i) == input.args[i][2].k = "Boolean"

\* C20: in a call of a free function with the callee's number of arguments,
\* "Wrong parameter name in argument label" is emitted for argument i exactly
\* when the parameter requires a label, the label differs from the parameter's
\* name and the argument is not a variable of the parameter's name: it is the
\* error of the call exactly when some argument i is in that case and no
\* argument before it has an error of its own.
C20_WrongLabel ==
    (pc = "call_done" /\ Len(input.args) = Len(FunAt(project, 0).params)) =>
        (Unwrap(output)[2] = WrongLabel
            <=> \E i \in DOMAIN input.args :
                    /\ LabelRequired(i)
                    /\ \A j \in 1 .. i - 1 : ~Mismatched(j))

\* h(n, n: n) on fn h(n: i32, m: i32): the first argument, the variable n,
\* needs no label, and the second, the variable n under the label n where the
\* parameter is m, is the first error of the call
C20_Witness ==
    /\ pc = "call_done"
    /\ Len(FunAt(project, 0).params) = 2
    /\ FunAt(project, 0).params[1].requires_label
    /\ FunAt(project, 0).params[2].requires_label
    /\ input.args = << <<"", VarE("n")>>, <<"n", VarE("n")>> >>
    /\ Unwrap(output)[2] = WrongLabel

-----------------------------------------------------------------------------
(* The safety mode of a body: typecheck_file on a file of one function or   *)
(* one method whose body dereferences its raw pointer parameter p at one    *)
(* place.  The mode is read at the dereference only, so the error of the    *)
(* run tells the mode in which that place was checked.                      *)

MaxNesting == 2      \* statements wrapped around the dereference

Deref == [k |-> "UnaryOp", op |-> [k |-> "Dereference"], expr |-> VarE("p")]

UnsafeBlockS(stmts) == [k |-> "UnsafeBlock", block |-> [stmts |-> stmts]]
IfS(cond, stmts, else_stmt) ==
    [k |-> "If", cond |-> cond, block |-> [stmts |-> stmts], else_stmt |-> else_stmt]
WhileS(cond, stmts) == [k |-> "While", cond |-> cond, block |-> [stmts |-> stmts]]
DeferS(stmt) == [k |-> "Defer", stmt |-> stmt]
True == [k |-> "Boolean", b |-> TRUE]

\* *p, Some(*p), (1, *p), [*p], println(*p)
DerefExpressions ==
    { Deref,
      [k |-> "OptionalSome", expr |-> Deref],
      [k |-> "Tuple", items |-> <<Lit(1), Deref>>],
      [k |-> "Vector", items |-> <<Deref>>, fill |-> None],
      CallE(<<>>, "println", << <<"", Deref>> >>) }

\* e    return e    let v = e    if e { }    while e { }
DerefStatements ==
    UNION { { ExprS(e), ReturnS(e), LetS("v", Empty, e), IfS(e, <<>>, None),
              WhileS(e, <<>>) } : e \in DerefExpressions }

\* { s }   unsafe { s }   if true { s }   if true { } else s   while true { s }
\* defer s   { unsafe { } s }
Wrapped(s) ==
    { BlockStmtS(<<s>>), UnsafeBlockS(<<s>>), IfS(True, <<s>>, None),
      IfS(True, <<>>, Some(s)), WhileS(True, <<s>>), DeferS(s),
      BlockStmtS(<<UnsafeBlockS(<<>>), s>>) }

RECURSIVE NestedTo(_)
NestedTo(n) ==
    IF n = 0 THEN DerefStatements
    ELSE NestedTo(n - 1) \cup UNION {Wrapped(s) : s \in NestedTo(n - 1)}

\* fn f(p: raw i32) { s }   or   struct S { fn m(this, p: raw i32) { s } }
FileOfBody(stmt, method) ==
    IF method
    THEN [structs |-> <<Record("S", <<>>,
                          <<Fn("m", <<This, Param(FALSE, "p",
                                        [k |-> "RawPtr", inner |-> Name("i32")])>>,
                               Empty, <<stmt>>)>>)>>,
          funs |-> <<>>]
    ELSE [structs |-> <<>>,
          funs |-> <<Fn("f", <<Param(FALSE, "p",
                                  [k |-> "RawPtr", inner |-> Name("i32")])>>,
                        Empty, <<stmt>>)>>]

InitSafety ==
    /\ project = NewProject
    /\ input \in [stmt : NestedTo(MaxNesting), method : BOOLEAN]
    /\ output = None
    /\ pc = "body"
    /\ AtRest

Body ==
    /\ pc = "body"
    /\ \E r \in {typecheck_file(FileOfBody(input.stmt, input.method), 0, project)} :
          /\ project' = r.project
          /\ output' = Some(r.err)
          /\ pc' = IF r.panic THEN "panic" ELSE "body_done"
    /\ UNCHANGED <<input, locals>>

SpecSafety == InitSafety /\ [][Body]_vars

\* the dereference occurs in the parsed expression e
RECURSIVE DerefIn(_)
DerefIn(e) ==
    CASE e.k = "UnaryOp" -> e.op.k = "Dereference" \/ DerefIn(e.expr)
      [] e.k = "OptionalSome" -> DerefIn(e.expr)
      [] e.k \in {"Tuple", "Vector"} -> \E i \in DOMAIN e.items : DerefIn(e.items[i])
      [] e.k = "Call" -> \E i \in DOMAIN e.call.args : DerefIn(e.call.args[i][2])
      [] OTHER -> FALSE

\* the dereference occurs in the parsed statement s; `inside` tells whether s
\* lies inside an UnsafeBlock, and the occurrence counts when it lies inside
\* an UnsafeBlock (unsafe = TRUE) or inside none (unsafe = FALSE)
RECURSIVE DerefAt(_, _, _)
DerefAt(s, inside, unsafe) ==
    CASE s.k \in {"Expression", "Return"} -> DerefIn(s.expr) /\ inside = unsafe
      [] s.k = "VarDecl" -> DerefIn(s.init) /\ inside = unsafe
      [] s.k = "Defer" -> DerefAt(s.stmt, inside, unsafe)
      [] s.k = "Block" ->
            \E i \in DOMAIN s.block.stmts : DerefAt(s.block.stmts[i], inside, unsafe)
      [] s.k = "UnsafeBlock" ->
            \E i \in DOMAIN s.block.stmts : DerefAt(s.block.stmts[i], TRUE, unsafe)
      [] s.k = "While" ->
            \/ DerefIn(s.cond) /\ inside = unsafe
            \/ \E i \in DOMAIN s.block.stmts : DerefAt(s.block.stmts[i], inside, unsafe)
      [] s.k = "If" ->
            \/ DerefIn(s.cond) /\ inside = unsafe
            \/ \E i \in DOMAIN s.block.stmts : DerefAt(s.block.stmts[i], inside, unsafe)
            \/ s.else_stmt # None /\ DerefAt(Unwrap(s.else_stmt), inside, unsafe)
      [] OTHER -> FALSE

\* C21: while the body of a function or of a method is checked, the
\* dereference in it is checked in Unsafe mode exactly when it lies inside an
\* UnsafeBlock of that body: the run reports "dereference of raw pointer
\* outside of unsafe block" when the dereference lies inside no UnsafeBlock,
\* whatever If, While, Block, Defer, VarDecl, Return or expression holds it
\* and also when it follows an UnsafeBlock, and reports nothing when it lies
\* inside one, however deep.
C21_UnsafeInsideUnsafeBlock ==
    pc = "body_done" =>
        /\ DerefAt(input.stmt, FALSE, FALSE) <=> Unwrap(output) = UnsafeDereference
        /\ DerefAt(input.stmt, FALSE, TRUE) <=> Unwrap(output) = None

\* unsafe { { unsafe { } return *p } } in a method: the dereference follows
\* an UnsafeBlock inside another one and is checked in Unsafe mode
C21_Witness ==
    /\ pc = "body_done"
    /\ input.method
    /\ input.stmt = UnsafeBlockS(<<BlockStmtS(<<UnsafeBlockS(<<>>), ReturnS(Deref)>>)>>)
    /\ Unwrap(output) = None

-----------------------------------------------------------------------------
(* Method calls: typecheck_file on a file whose last function calls a method *)
(* on its parameter p of record type P.                                      *)

\* the parameters after `this` of method h: i32 parameters n, m, ... that do
\* or do not require a label
MethodParams(labels) ==
    <<This>> \o [i \in DOMAIN labels |-> Param(labels[i], ParamNames[i], Name("i32"))]

\* struct P { fn h(this, ...) { } }   struct Q { }   fn g(a: i32) { }
\* fn caller(p: P, n: i32, m: i32) { p.name(args) }
FileCalling(labels, name, args) ==
    [structs |-> << Record("P", <<>>, <<Fn("h", MethodParams(labels), Empty, <<>>)>>),
                    Record("Q", <<>>, <<>>) >>,
     funs |-> << Fn("g", <<Param(TRUE, "a", Name("i32"))>>, Empty, <<>>),
                 Fn("caller", << Param(FALSE, "p", Name("P")),
                                 Param(FALSE, "n", Name("i32")),
                                 Param(FALSE, "m", Name("i32")) >>,
                    Empty, <<ExprS(MethodCallE(VarE("p"), name, args))>>) >>]

MethodLabels == UNION {[1..c -> BOOLEAN] : c \in 0..MaxParams}

InitMethodCall ==
    /\ project = NewProject
    /\ input \in { i \in [labels : MethodLabels, name : {"h", "g", "Q", "nope"},
                          args : SeqsTo(Arguments, MaxParams)] :
                      i.name # "h" => i.labels = <<>> }
    /\ output = None
    /\ pc = "method_call"
    /\ AtRest

MethodCallFile ==
    /\ pc = "method_call"
    /\ \E r \in {typecheck_file(FileCalling(input.labels, input.name, input.args),
                                0, project)} :
          /\ project' = r.project
          /\ output' = Some(r.err)
          /\ pc' = IF r.panic THEN "panic" ELSE "method_call_done"
    /\ UNCHANGED <<input, locals>>

SpecMethodCall == InitMethodCall /\ [][MethodCallFile]_vars

\* the checked method call stored in the body of caller
StoredMethodCall ==
    FunAt(project, Unwrap(find_function_in_scope(project, 0, "caller")))
        .block.stmts[1].expr.call

\* the functions registered in the own scope of record P, whose id is 0
OwnFunctions == ScopeAt(project, StructAt(project, 0).scope_id).funs

\* C22: a method call on a receiver of type Struct(id) resolves only to a
\* function registered in that record's own scope: when that scope holds no
\* function of the call's name, the call stays unresolved and "call to
\* unknown function" is reported, even if a free function or a constructor of
\* that name is bound in the file scope.
C22_OwnScopeOnly ==
    (pc = "method_call_done" /\ FirstBinding(OwnFunctions, input.name) = None) =>
        /\ StoredMethodCall.callee = None
        /\ Unwrap(output) = TypecheckError("call to unknown function: " \o input.name)

\* the callee of a stored, resolved method call
Callee == FunAt(project, Unwrap(StoredMethodCall.callee))

\* the condition C23 states for argument i (from 1) of the method call in
\* `input`: everything is read from parameter i + 1 (from 1), the one after
\* the parameter the argument's position would name in a free call
MethodLabelRequired(i) ==
    /\ Callee.params[i + 1].requires_label
    /\ input.args[i][1] # Callee.params[i + 1].variable.name
    /\ ~(/\ input.args[i][2].k = "Var"
         /\ input.args[i][2].name = Callee.params[i + 1].variable.name)

\* C23: in a method call with as many arguments as the callee has parameters
\* after `this`, "Wrong parameter name in argument label" is emitted for an
\* argument exactly when the parameter one place further requires a label,
\* the label differs from that parameter's name and the argument is not a
\* variable of that parameter's name; whether the parameter at the argument's
\* own place requires a label plays no role.  It is the error of the run
\* exactly when some argument is in that case and no argument before it has
\* an error of its own.
C23_LabelOfNextParameter ==
    (/\ pc = "method_call_done"
     /\ StoredMethodCall.callee # None
     /\ Len(Callee.params) = Len(input.args) + 1) =>
        (Unwrap(output) = WrongLabel
            <=> \E i \in DOMAIN input.args :
                    /\ MethodLabelRequired(i)
                    /\ \A j \in 1 .. i - 1 : ~Mismatched(j))

-----------------------------------------------------------------------------
(* typecheck_expression in the body scope of a function, on a project that  *)
(* holds the records P { x: i32  y: bool } and R { p: P }                   *)

MaxExprDepth == 2      \* accesses and wrappers around a variable or literal
MaxItems == 3          \* elements of a vector literal

ExpressionFile ==
    [structs |-> << Record("P", <<Field("x", Name("i32")), Field("y", Name("bool"))>>,
                           <<>>),
                    Record("R", <<Field("p", Name("P"))>>, <<>>) >>,
     funs |-> <<>>]

\* the variables of the body scope: P has id 0 and R has id 1
ExpressionVars ==
    << CheckedVariable("x", Ty("I32"), TRUE),
       CheckedVariable("c", Ty("I32"), FALSE),
       CheckedVariable("s", StructTy(0), TRUE),
       CheckedVariable("t", StructTy(0), FALSE),
       CheckedVariable("r", StructTy(1), TRUE),
       CheckedVariable("o", Optional(Ty("I32")), TRUE),
       CheckedVariable("v", Vector(StructTy(0)), TRUE),
       CheckedVariable("tup", Tuple(<<Ty("I32"), Ty("Bool")>>), TRUE),
       CheckedVariable("q", RawPtr(StructTy(0)), FALSE) >>

\* add_var_to_scope for the variables from i on
RECURSIVE BindVars(_, _, _, _)
BindVars(p, sid, variables, i) ==
    IF i > Len(variables) THEN p
    ELSE BindVars(add_var_to_scope(p, sid, variables[i]).project, sid, variables, i + 1)

\* the project when the body is checked: the file is checked, and the body
\* scope, the last one created, binds the variables
ExpressionProject ==
    With(create_scope(typecheck_file(ExpressionFile, 0, NewProject).project, 0),
         LAMBDA cs : BindVars(cs[1], cs[2], ExpressionVars, 1))

OptionalNoneE == [k |-> "OptionalNone"]
OptionalSomeE(e) == [k |-> "OptionalSome", expr |-> e]
ForcedUnwrapE(e) == [k |-> "ForcedUnwrap", expr |-> e]
IndexedStructE(e, name) == [k |-> "IndexedStruct", expr |-> e, name |-> name]
IndexedTupleE(e, index) == [k |-> "IndexedTuple", expr |-> e, index |-> index]
IndexedExpressionE(e, index) == [k |-> "IndexedExpression", expr |-> e, index |-> index]
VectorE(items) == [k |-> "Vector", items |-> items, fill |-> None]

\* 1  true  None  *q  and the variables; u is bound nowhere
Atoms ==
    {Lit(1), True, OptionalNoneE, [k |-> "UnaryOp", op |-> [k |-> "Dereference"],
                                   expr |-> VarE("q")]}
    \cup {VarE(name) : name \in {"x", "c", "s", "t", "r", "o", "v", "tup", "u"}}

\* Some(e)  e!  e.x  e.p  e.nope  e.0  e[0]
Around(e) ==
    { OptionalSomeE(e), ForcedUnwrapE(e), IndexedStructE(e, "x"), IndexedStructE(e, "p"),
      IndexedStructE(e, "nope"), IndexedTupleE(e, 0), IndexedExpressionE(e, Lit(0)) }

RECURSIVE ExpressionsTo(_)
ExpressionsTo(d) ==
    IF d = 0 THEN Atoms
    ELSE ExpressionsTo(d - 1) \cup UNION {Around(e) : e \in ExpressionsTo(d - 1)}

\* [e, ...] of 1, true, None, x and the unbound u
VectorLiterals ==
    {VectorE(items) :
        items \in SeqsTo({Lit(1), True, OptionalNoneE, VarE("x"), VarE("u")}, MaxItems)}

InitExpression ==
    /\ project = ExpressionProject
    /\ input \in [expr : ExpressionsTo(MaxExprDepth) \cup VectorLiterals,
                  safety_mode : SafetyModes]
    /\ output = None
    /\ pc = "expression"
    /\ AtRest

Expression ==
    /\ pc = "expression"
    /\ output' = Some(typecheck_expression(input.expr, Len(project.scopes) - 1, project,
                                           input.safety_mode))
    /\ pc' = "expression_done"
    /\ UNCHANGED <<project, input, locals>>

SpecExpression == InitExpression /\ [][Expression]_vars

\* the sub-expressions an expression checks, in the order it checks them
SubExpressions(e) ==
    CASE e.k \in {"UnaryOp", "OptionalSome", "ForcedUnwrap", "IndexedStruct",
                  "IndexedTuple"} -> <<e.expr>>
      [] e.k = "IndexedExpression" -> <<e.expr, e.index>>
      [] e.k = "Vector" -> e.items
      [] OTHER -> <<>>

\* the error of the check of sub-expression i of the expression in `input`
SubError(i) ==
    typecheck_expression(SubExpressions(input.expr)[i], Len(project.scopes) - 1,
                         project, input.safety_mode)[2]

\* C24: typecheck_expression returns an error whenever the check of a
\* sub-expression it checked returned one, for every form of expression, a
\* field access that finds its field included; the error returned is the
\* first one emitted in evaluation order, so it is the error of the first
\* sub-expression checked when that one has an error.
C24_FirstErrorReturned ==
    pc = "expression_done" =>
        /\ (\E i \in DOMAIN SubExpressions(input.expr) : SubError(i) # None)
              => Unwrap(output)[2] # None
        /\ (SubExpressions(input.expr) # <<>> /\ SubError(1) # None)
              => Unwrap(output)[2] = SubError(1)

\* C26: the checked node of OptionalSome(e) has type Optional(e.ty()), so a
\* ForcedUnwrap of OptionalSome(e) has type e.ty() and emits no "Forced unwrap
\* only works on Optional" error: its error is the one of e.
C26_SomeIsOptional ==
    pc = "expression_done" =>
        /\ input.expr.k = "OptionalSome"
              => ty_of(Unwrap(output)[1]) = Optional(ty_of(Unwrap(output)[1].expr))
        /\ (input.expr.k = "ForcedUnwrap" /\ input.expr.expr.k = "OptionalSome")
              => /\ ty_of(Unwrap(output)[1]) = ty_of(Unwrap(output)[1].expr.expr)
                 /\ Unwrap(output)[2] = SubError(1)

\* the type C27 gives a vector literal whose checked elements are `items`
LiteralType(items) == IF items = <<>> THEN Vector(Unknown) ELSE Vector(ty_of(items[1]))

\* element i of the checked vector literal has an error to report: its own,
\* or a type other than the first element's
ElementError(i) ==
    \/ SubError(i) # None
    \/ i > 1 /\ ty_of(Unwrap(output)[1].items[i]) # ty_of(Unwrap(output)[1].items[1])

\* C27: a vector literal has type Vector(T), T the type of its first element
\* whatever that type is, and "does not match type of previous values in
\* vector" is emitted for every later element of another type: the error
\* returned is the one of the first element that has an error of its own or
\* another type than T.  The empty literal has type Vector(Unknown) and no
\* error.
C27_VectorOfFirstElement ==
    (pc = "expression_done" /\ input.expr.k = "Vector") =>
        /\ ty_of(Unwrap(output)[1]) = LiteralType(Unwrap(output)[1].items)
        /\ \A i \in DOMAIN input.expr.items :
              (ElementError(i) /\ \A j \in 1 .. i - 1 : ~ElementError(j)) =>
                  Unwrap(output)[2] =
                      IF SubError(i) # None THEN SubError(i)
                      ELSE TypecheckError(
                              "does not match type of previous values in vector")
        /\ (\A i \in DOMAIN input.expr.items : ~ElementError(i))
              => Unwrap(output)[2] = None

-----------------------------------------------------------------------------
(* typecheck_statement on a variable declaration, in the body scope of the  *)
(* project above                                                            *)

\* none, i32, bool, P, the unknown name Nope, and a vector of it
DeclaredTypes ==
    {Empty, Name("i32"), Name("bool"), Name("P"), Name("Nope"),
     [k |-> "Vector", inner |-> Name("Nope")]}

\* 1  true  None  s  and the unbound u
Initialisers == {Lit(1), True, OptionalNoneE, VarE("s"), VarE("u")}

\* let [mutable] z: T = e;  x is bound in the scope already
InitVarDecl ==
    /\ project = ExpressionProject
    /\ input \in { [k |-> "VarDecl",
                    var_decl |-> [name |-> name, ty |-> ty, mutable |-> mutable],
                    init |-> init] :
                   name \in {"z", "x"}, ty \in DeclaredTypes, mutable \in BOOLEAN,
                   init \in Initialisers }
    /\ output = None
    /\ pc = "var_decl"
    /\ AtRest

VarDecl ==
    /\ pc = "var_decl"
    /\ \E r \in {typecheck_statement(input, Len(project.scopes) - 1, project, "Safe")} :
          /\ project' = r.project
          /\ output' = Some([stmt |-> r.stmt, err |-> r.err])
    /\ pc' = "var_decl_done"
    /\ UNCHANGED <<input, locals>>

SpecVarDecl == InitVarDecl /\ [][VarDecl]_vars

\* the variable the declaration registered: the last binding of its name in
\* the body scope
Registered ==
    LET bound == ScopeAt(project, Len(project.scopes) - 1).vars
        at == {i \in DOMAIN bound : bound[i].name = input.var_decl.name}
    IN bound[CHOOSE i \in at : \A j \in at : j <= i]

\* C25: a VarDecl whose declared type names a type that is neither built in
\* nor a record on the scope chain returns an error, "unknown type" unless the
\* initialiser had an error before, whether or not the initialiser's type is
\* known; the variable is registered all the same, with the initialiser's
\* type when that is known and with Unknown otherwise.
C25_UnknownTypeReported ==
    (pc = "var_decl_done" /\ input.var_decl.ty = Name("Nope")) =>
        /\ Unwrap(output).err # None
        /\ input.init \in {Lit(1), True, OptionalNoneE, VarE("s")}
              => Unwrap(output).err = TypecheckError("unknown type")
        /\ input.var_decl.name = "z"
              => Registered = CheckedVariable("z", ty_of(Unwrap(output).stmt.init),
                                              input.var_decl.mutable)

-----------------------------------------------------------------------------
(* typecheck_binary_operation on the operands typecheck_expression hands it: *)
(* the checked left operand and the checked, promoted right operand          *)

BinaryOperators == AssignmentOperators \cup {"Add", "LessThan", "LogicalAnd", "LogicalOr"}

\* 1 (promoted to the type of an integer left operand), true, and t of type P
RightOperands == {Lit(1), True, VarE("t")}

\* the checked operands of lhs op rhs in the body scope
CheckedOperands(lhs, rhs) ==
    With(typecheck_expression(lhs, Len(ExpressionProject.scopes) - 1, ExpressionProject,
                              "Unsafe")[1], LAMBDA l :
        [lhs |-> l,
         rhs |-> try_promote_constant_expr_to_type(ty_of(l),
                    typecheck_expression(rhs, Len(ExpressionProject.scopes) - 1,
                                         ExpressionProject, "Unsafe")[1])[1]])

InitBinary ==
    /\ project = ExpressionProject
    /\ \E lhs \in ExpressionsTo(MaxExprDepth), rhs \in RightOperands, op \in BinaryOperators :
          input = [lhs |-> CheckedOperands(lhs, rhs).lhs, op |-> op,
                   rhs |-> CheckedOperands(lhs, rhs).rhs]
    /\ output = None
    /\ pc = "binary"
    /\ AtRest

BinaryOperation ==
    /\ pc = "binary"
    /\ output' = Some(typecheck_binary_operation(input.lhs, input.op, input.rhs))
    /\ pc' = "binary_done"
    /\ UNCHANGED <<project, input, locals>>

SpecBinary == InitBinary /\ [][BinaryOperation]_vars

\* what is left of a checked expression when the field accesses and the
\* indexings around it are taken off
RECURSIVE Accessed(_)
Accessed(e) ==
    IF e.k \in {"IndexedStruct", "IndexedExpression"} THEN Accessed(e.expr) ELSE e

\* the left operand is a variable bound as mutable, reached directly or
\* through field accesses and indexings
MutableVariable(e) == Accessed(e).k = "Var" /\ Accessed(e).var.mutable

\* C28: for every assignment operator typecheck_binary_operation returns the
\* type of the left operand, with the error "assignment between incompatible
\* types" when the operands' types differ, otherwise "assignment to immutable
\* variable" when the left operand is not a variable bound as mutable, reached
\* directly or through field accesses and indexings (a tuple index, Some and
\* a forced unwrap are immutable), otherwise no error; the other operators
\* never produce an error.
C28_Assignment ==
    pc = "binary_done" =>
        /\ input.op \in AssignmentOperators =>
              /\ Unwrap(output)[1] = ty_of(input.lhs)
              /\ Unwrap(output)[2] =
                    IF ty_of(input.lhs) # ty_of(input.rhs)
                    THEN TypecheckError("assignment between incompatible types")
                    ELSE IF ~MutableVariable(input.lhs)
                    THEN TypecheckError("assignment to immutable variable")
                    ELSE None
        /\ input.op \notin AssignmentOperators => Unwrap(output)[2] = None

\* v[0].x += 1 with v a mutable vector of P: the left operand is reached
\* through an indexing and a field access, the literal was promoted to i32,
\* and the assignment has no error
C28_Witness ==
    /\ pc = "binary_done"
    /\ input.op = "AddAssign"
    /\ input.lhs.k = "IndexedStruct"
    /\ input.lhs.expr.k = "IndexedExpression"
    /\ input.lhs.expr.expr = [k |-> "Var", var |-> CheckedVariable("v", Vector(StructTy(0)), TRUE)]
    /\ input.rhs.k = "NumericConstant"
    /\ ty_of(input.rhs) = Ty("I32")
    /\ Unwrap(output) = <<Ty("I32"), None>>

-----------------------------------------------------------------------------
(* typecheck_file, pass by pass, on records whose fields name records of    *)
(* the file                                                                 *)

MutableField(name, ty) == [name |-> name, ty |-> ty, mutable |-> TRUE]

FieldRecordTemplates ==
    { \* struct A { a: A  mutable b: B  n: i32 }
      Record("A", <<Field("a", Name("A")), MutableField("b", Name("B")),
                    Field("n", Name("i32"))>>, <<>>),
      \* struct B { mutable a: A  fn m(this) { } }
      Record("B", <<MutableField("a", Name("A"))>>, <<Fn("m", <<This>>, Empty, <<>>)>>),
      \* struct String { s: String  a: A }
      Record("String", <<Field("s", Name("String")), Field("a", Name("A"))>>, <<>>),
      \* struct D { z: Nope  d: D }
      Record("D", <<Field("z", Name("Nope")), Field("d", Name("D"))>>, <<>>) }

\* fn f() { }
FieldFunTemplates == { Fn("f", <<>>, Empty, <<>>) }

InitFields ==
    /\ parsed_file \in FilesFrom(FieldRecordTemplates, FieldFunTemplates, MaxDecls)
    /\ \E entry \in Entries : project = entry[1] /\ scope_id = entry[2]
    /\ pc = At(parsed_file, "struct_predecl", 0)[1]
    /\ idx = 0
    /\ midx = 0
    /\ error = None
    /\ project_struct_len = Len(project.structs)
    /\ bodies_checked = 0
    /\ funs_at_first_body = 0
    /\ first_error = None
    /\ input = None
    /\ output = None

SpecFields == InitFields /\ [][Next]_vars

\* record k of the file is pushed on project.structs
Predeclared(k) == pc = "struct_predecl" => idx >= k

\* pass 2a, typecheck_struct, has assigned the fields of record k of the file
Reached(k) ==
    CASE pc \in {"struct_predecl", "fun_predecl"} -> FALSE
      [] pc = "struct" -> idx >= k
      [] pc = "method" -> idx + 1 >= k
      [] OTHER -> TRUE

\* field i of record k names, as its type, a record of the file
NamesRecord(k, i) ==
    /\ parsed_file.structs[k].fields[i].ty.k = "Name"
    /\ RecordsNamed(parsed_file, parsed_file.structs[k].fields[i].ty.name) # {}

\* the stored fields of record k: one per declared field, in order, with the
\* declared name and mutability; typed(k, i) tells the fields whose type is
\* looked at, which must be the record of the file they name
FieldsStored(k, typed(_, _)) ==
    LET declared == parsed_file.structs[k].fields
        stored == StructAt(project, project_struct_len + k - 1).fields
    IN /\ Len(stored) = Len(declared)
       /\ \A i \in DOMAIN declared :
             /\ stored[i].name = declared[i].name
             /\ stored[i].mutable = declared[i].mutable
             /\ (NamesRecord(k, i) /\ typed(k, i)) =>
                   \E j \in RecordsNamed(parsed_file, declared[i].ty.name) :
                       stored[i].ty = StructTy(project_struct_len + j - 1)

\* every field of the file names a record of the file or a built-in type
AllFieldsNamed(typed(_, _)) ==
    \A k \in DOMAIN parsed_file.structs : \A i \in DOMAIN parsed_file.structs[k].fields :
        \/ NamesRecord(k, i) /\ typed(k, i)
        \/ parsed_file.structs[k].fields[i].ty.name \in DOMAIN BuiltinTypeNames

FieldsOfFile(typed(_, _)) ==
    /\ \A k \in DOMAIN parsed_file.structs :
          Predeclared(k) =>
              IF Reached(k) THEN FieldsStored(k, typed)
              ELSE StructAt(project, project_struct_len + k - 1).fields = <<>>
    /\ (Returned /\ AllFieldsNamed(typed)) => output = None

\* C29 as stated: in a file of records of pairwise distinct names (the
\* templates), the fields of every record are empty until pass 2a reaches the
\* record; from then on there is one stored field per declared field, in
\* order, with the declared name and mutability, and a field whose declared
\* type names a record of the file, itself, an earlier or a later one, has
\* type Struct(id of that record) and causes no error.
C29_FieldsOfFileRecords == FieldsOfFile(LAMBDA k, i : TRUE)

\* C29 amended: the same, for the fields whose type name is not the name of
\* a built-in type; a built-in name is never looked up as a record.
C29_FieldsOfFileRecordsUnlessBuiltin ==
    FieldsOfFile(LAMBDA k, i :
        parsed_file.structs[k].fields[i].ty.name \notin DOMAIN BuiltinTypeNames)

\* struct A { a: A  mutable b: B  n: i32 }  struct B { mutable a: A ... }: at
\* return the fields a and b of A have the types of A itself and of the later
\* record B, and the file has no error
C29_Witness ==
    /\ Returned
    /\ Len(parsed_file.structs) = 2
    /\ parsed_file.structs[1].name = "A"
    /\ parsed_file.structs[2].name = "B"
    /\ StructAt(project, project_struct_len).fields =
          << CheckedVarDecl("a", StructTy(project_struct_len), FALSE),
             CheckedVarDecl("b", StructTy(project_struct_len + 1), TRUE),
             CheckedVarDecl("n", Ty("I32"), FALSE) >>
    /\ output = None

-----------------------------------------------------------------------------
(* Aborts: typecheck_file pass by pass on a new project and on the project  *)
(* an earlier run left, and IntegerConstant::promote on every target type   *)

InitAbort == Init \/ InitSecond \/ InitPromote

NextAbort == Next \/ Promote

SpecAbort == InitAbort /\ [][NextAbort]_vars

\* the lookup typecheck_fun or typecheck_method is about to make with
\* expect() finds a function
LookupFinds ==
    /\ pc = "fun" =>
          find_function_in_scope(project, scope_id, parsed_file.funs[idx + 1].name) # None
    /\ pc = "method" =>
          find_function_in_scope(project,
              StructAt(project, idx + project_struct_len).scope_id,
              parsed_file.structs[idx + 1].methods[midx + 1].name) # None

\* every id the project holds is an index of the vector it is used on
IdsAreIndices ==
    /\ \A scope \in Range(project.scopes) :
          /\ scope.parent # None => Unwrap(scope.parent) \in 0 .. Len(project.scopes) - 1
          /\ \A b \in Range(scope.structs) : b[2] \in 0 .. Len(project.structs) - 1
          /\ \A b \in Range(scope.funs) : b[2] \in 0 .. Len(project.funs) - 1
    /\ \A s \in Range(project.structs) : s.scope_id \in 0 .. Len(project.scopes) - 1
    /\ \A ty \in StoredTypes(project) :
          \A id \in StructIdsIn(ty) : id \in 0 .. Len(project.structs) - 1
    /\ pc \in {"struct", "method"} => idx + project_struct_len < Len(project.structs)

\* the checked arguments of a resolved call were matched with parameters the
\* callee has: argument idx with params[idx], or params[idx + 1] in a method
\* call
ParamsAreIndexed ==
    \A e \in StoredCalls(project) :
        e.call.callee # None =>
            /\ Unwrap(e.call.callee) \in 0 .. Len(project.funs) - 1
            /\ Len(e.call.args) <= Supplied(e, FunAt(project, Unwrap(e.call.callee)))

\* C30: typecheck_file never aborts, on a new project or on one an earlier
\* run left: promote never reaches the panic of its width match, whatever the
\* target type; the function typecheck_fun and typecheck_method look up with
\* expect() is found; and the ids used as indices into project.scopes,
\* project.funs, project.structs and callee.params are in range.
C30_NeverAborts ==
    /\ pc # "panic"
    /\ pc = "promote_done" => output # "panic"
    /\ LookupFinds
    /\ IdsAreIndices
    /\ ParamsAreIndexed

\* a second run has returned: it checked bodies, on a project that held a
\* record before, and a method call with checked arguments is stored
C30_Witness ==
    /\ Returned
    /\ input # None
    /\ project_struct_len > 0
    /\ bodies_checked > 1
    /\ \E e \in StoredCalls(project) :
          e.k = "MethodCall" /\ e.call.callee # None /\ Len(e.call.args) > 0

=============================================================================
